---- MODULE Spec2Model ----
(***************************************************************************)
(* termchat: the streaming conversation session engine.                    *)
(*                                                                         *)
(*   ChatManager            src/src/chat.ts                                *)
(*   OpenAIProvider         src/src/providers/openai.ts                    *)
(*   AnthropicProvider      src/src/providers/anthropic.ts                 *)
(*   readline coordinator   src/src/index.ts                               *)
(*   Ink coordinator        src/src/components/ChatUI.tsx                  *)
(*   command layer          src/src/commands.ts                            *)
(*                                                                         *)
(* JavaScript runs one macrotask to completion, promise continuations      *)
(* included, so an action is one macrotask: an operator input event, one   *)
(* event of a backend stream, the completion of a file write, a timer.     *)
(* Texts are sequences of one-character strings; an error message is a     *)
(* sequence of text pieces, and string concatenation is \o.                *)
(***************************************************************************)
EXTENDS Integers, Sequences, FiniteSets, TLC

VARIABLES
  provider,             \* ChatManager.provider: the bound backend
  conversationHistory,  \* ChatManager.conversationHistory
  messageMetadata,      \* ChatManager.messageMetadata: Map<number, {timestamp, tokenCount?}>
  calls,                \* the activations of ChatManager.sendMessage in flight, by id
  nextId,               \* the number of sendMessage activations started so far
  outcome,              \* how the last sendMessage ended, until the next one begins
  cancelledAs,          \* the messages cancelled sendMessage calls have been rejected with
  ui,                   \* which front end drives the session
  isProcessing,         \* index.ts: let isProcessing / ChatUI: useState(false)
  isLoading,            \* ChatUI: useState(false), the <Spinner/> is rendered while TRUE
  spinnerIntervals,     \* index.ts: the spinner timers set and not yet cleared, by turn
  cursorVisible,        \* the terminal cursor (\x1b[?25l hides, \x1b[?25h shows)
  promptShown,          \* rl.prompt() has been written since the last line was read
  explicitExit,         \* index.ts: let explicitExit
  exited,               \* how the process ended, "no" while it runs
  activeProvider,       \* config.config.activeProvider
  pendingSaves,         \* commands suspended at await configLoader.save(...)
  ev,                   \* the event the runtime delivered last
  messages,             \* ChatUI: useState of the transcript, its user and assistant messages
  tw,                   \* a TextWrapper: linePosition, maxWidth, wordBuffer, lineBuffer
  wrapped,              \* the message a TextWrapper is built for: text, width, column
  terminalWidth,        \* the terminal width the TextWrapper was told last
  fed,                  \* how many characters of wrapped.text went through wrapChunk
  nfrag,                \* how many non-empty fragments they came in
  written,              \* what the TextWrapper returned so far, concatenated
  wlast,                \* the last operation on the TextWrapper
  used,                 \* the flush, reset and updateWidth calls made so far, in order
  usageProvider,        \* the provider with usage reporting the session is bound to
  pricing,              \* config.config.activeModel.pricing, Undefined when absent
  totalInputTokens,     \* ChatManager: input tokens of the session so far
  totalOutputTokens,    \* ChatManager: output tokens of the session so far
  totalTokens,          \* ChatUI (status bar): useState(0)
  sessionCost,          \* ChatUI (status bar): useState(null), Undefined for null
  usageProcessing,      \* ChatUI (status bar): isProcessing
  usageSaves,           \* switch commands suspended at await configLoader.save(...)
  usageTurns,           \* the turns started so far
  response,             \* what the provider's sendMessage returned or threw last
  columns,              \* process.stdout.columns, 0 when it is undefined
  theme,                \* UIRenderer.theme
  userWrapper,          \* index.ts 173: the TextWrapper the input of the turn was echoed through
  textWrapper,          \* index.ts 206: the TextWrapper of the response of the turn
  styleOpen,            \* the terminal has a style attribute set (an SGR sequence not yet reset)
  stdout,               \* what the last handler wrote to the terminal, write by write
  painting,             \* a turn is being painted
  isFirstChunk,         \* index.ts 194: let firstChunk
  spinners,             \* index.ts 196: the spinner intervals of the painted turns not yet cleared
  paintTurns,           \* the turns painted so far
  paintChunks,          \* the fragments of the turn painted so far
  turnWidths,           \* the maxWidth of the textWrapper of each turn so far
  terminal,             \* the terminal: rows, cols, the cursor's row on the screen, the lines scrolled off
  lastLineCount,        \* part_000 131: let lastLineCount
  assistantContent,     \* part_000 129: let assistantContent
  assistantStartTime,   \* part_000 128: const assistantStartTime
  repainting,           \* a turn of the repainting front end is under way
  repaintTurns,         \* the turns it has begun so far
  repaintChunks,        \* the fragments of the turn it has painted so far
  paintedFrom,          \* the row (counted from the first line ever written) the last bubble was painted from
  paintedRows,          \* the rows the last painted bubble takes on the terminal
  paintedTo,            \* the row the cursor was on when that bubble had been written
  estimate,             \* what the last call of estimateTokens or getTokenEstimate was given and returned
  render,               \* the call of a render method of UIRenderer in progress or last made, and how it ended
  wt                    \* UIRenderer.wrapText: where its loops are and their variables

vars == <<provider, conversationHistory, messageMetadata, calls, nextId,
          outcome, cancelledAs, ui, isProcessing, isLoading, spinnerIntervals,
          cursorVisible, promptShown, explicitExit, exited,
          activeProvider, pendingSaves, ev, messages,
          tw, wrapped, terminalWidth, fed, nfrag, written, wlast, used,
          usageProvider, pricing, totalInputTokens, totalOutputTokens,
          totalTokens, sessionCost, usageProcessing, usageSaves, usageTurns,
          response,
          columns, theme, userWrapper, textWrapper, styleOpen, stdout,
          painting, isFirstChunk, spinners, paintTurns, paintChunks, turnWidths,
          terminal, lastLineCount, assistantContent, assistantStartTime,
          repainting, repaintTurns, repaintChunks, paintedFrom, paintedRows,
          paintedTo, estimate,
          render, wt>>

progVars == <<provider, conversationHistory, messageMetadata, calls, nextId,
              outcome, cancelledAs, isProcessing, isLoading, spinnerIntervals,
              cursorVisible, promptShown, explicitExit, exited,
              activeProvider, pendingSaves, ev, messages>>

wrapVars == <<tw, wrapped, terminalWidth, fed, nfrag, written, wlast, used>>

usageVars == <<usageProvider, pricing, totalInputTokens, totalOutputTokens,
               totalTokens, sessionCost, usageProcessing, usageSaves,
               usageTurns, response>>

renderVars == <<render, wt>>

estimateVars == <<estimate>>

repaintVars == <<terminal, lastLineCount, assistantContent, assistantStartTime,
                 repainting, repaintTurns, repaintChunks, paintedFrom,
                 paintedRows, paintedTo>>

paintVars == <<columns, theme, userWrapper, textWrapper, styleOpen, stdout,
               painting, isFirstChunk, spinners, paintTurns, paintChunks, turnWidths>>

\* What a step of the program, of a TextWrapper, of the usage accounting, of
\* the painting of a turn, of the repainting front end leaves alone.
progRest == <<wrapVars, usageVars, paintVars, repaintVars, estimateVars, renderVars>>
wrapRest == <<progVars, ui, usageVars, paintVars, repaintVars, estimateVars, renderVars>>
usageRest == <<progVars, ui, wrapVars, paintVars, repaintVars, estimateVars, renderVars>>
paintRest == <<progVars, ui, wrapVars, usageVars, repaintVars, estimateVars, renderVars>>
repaintRest == <<progVars, ui, wrapVars, usageVars, paintVars, estimateVars, renderVars>>
estimateRest == <<progVars, ui, wrapVars, usageVars, paintVars, repaintVars, renderVars>>
renderRest == <<progVars, ui, wrapVars, usageVars, paintVars, repaintVars, estimateVars>>

sessionVars == <<provider, conversationHistory, messageMetadata>>
uiVars == <<isProcessing, isLoading, spinnerIntervals,
            cursorVisible, promptShown, explicitExit>>

(***************************************************************************)
(* Bounds of the model.                                                    *)
(***************************************************************************)
MaxTurns == 2
MaxChunks == 2
MaxPending == 1

Undefined == -1

Providers == {"anthropic", "openai"}

UserTexts == {<<"h", "i">>}

FragTexts == {<<>>, <<"a", "b", "c">>}

ErrorTexts == {<<"Request cancelled">>}

\* What the SDK can throw: an APIError, another Error, or a value that is no Error.
SdkErrors ==
  [cls : {"APIError", "Error"}, msg : ErrorTexts] \cup {[cls |-> "NonError", msg |-> <<>>]}

\* What a stream yields: a text delta, or a chunk that carries no text.
StreamChunks ==
  [type : {"text"}, text : FragTexts] \cup {[type |-> "other", text |-> <<>>]}

Signals == {"undefined", "live", "aborted"}

(***************************************************************************)
(* Map<number, V> as a function on the set of its keys.                    *)
(***************************************************************************)
EmptyMap == [k \in {} |-> Undefined]

MapSet(m, key, value) ==
  [k \in (DOMAIN m) \cup {key} |-> IF k = key THEN value ELSE m[k]]

MapDeleteKeepsKey(m, key) == m

MapDelete(m, key) == [k \in (DOMAIN m) \ {key} |-> m[k]]

\* Array.prototype.pop: removes the last element, whatever it is; no-op when empty.
ArrayPop(a) == IF a = <<>> THEN a ELSE SubSeq(a, 1, Len(a) - 1)

(***************************************************************************)
(* BaseProvider.estimateTokens: Math.ceil(text.length / 4).                *)
(***************************************************************************)
estimateTokensRoundsDown(text) == Len(text) \div 4

estimateTokensCountsCharacters(text) == Len(text)

estimateTokens(text) == (Len(text) + 3) \div 4

(***************************************************************************)
(* ChatManager (src/src/chat.ts).  Array index i of the code is position    *)
(* i + 1 of the sequence; the keys of messageMetadata are the code's.       *)
(***************************************************************************)
\* sendMessage, lines 39-45: the write-ahead of the user message.
SendMessagePush(history, metadata, userMessage, now) ==
  [history  |-> Append(history, [role |-> "user", content |-> userMessage]),
   metadata |-> MapSet(metadata, Len(history),
                       [timestamp |-> now, tokenCount |-> Undefined])]

SendMessageFinishTwice(history, metadata, fullResponse, tokenCount, now) ==
  [history  |-> history \o << [role |-> "assistant", content |-> fullResponse],
                              [role |-> "assistant", content |-> fullResponse] >>,
   metadata |-> MapSet(metadata, Len(history),
                       [timestamp |-> now, tokenCount |-> tokenCount])]

SendMessageFinishDropsAssistant(history, metadata, fullResponse, tokenCount, now) ==
  [history |-> history, metadata |-> metadata]

\* sendMessage, lines 59-68: the assistant message and its metadata.
SendMessageFinish(history, metadata, fullResponse, tokenCount, now) ==
  [history  |-> Append(history, [role |-> "assistant", content |-> fullResponse]),
   metadata |-> MapSet(metadata, Len(history),
                       [timestamp |-> now, tokenCount |-> tokenCount])]

SendMessageRollbackKeepsUser(history, metadata, userMessageIndex) ==
  [history |-> history, metadata |-> metadata]

\* sendMessage, lines 70-72: the catch block's rollback.
SendMessageRollback(history, metadata, userMessageIndex) ==
  [history  |-> ArrayPop(history),
   metadata |-> MapDelete(metadata, userMessageIndex)]

\* sendMessage, lines 74-78: what the catch block throws.
SendMessageRethrow(error) ==
  IF error.cls \in {"Error", "APIError"}
    THEN <<"Error: ">> \o error.msg
    ELSE <<"An unknown error occurred">>

\* getHistory, lines 82-91.
getHistory(history, metadata) ==
  [i \in 1..Len(history) |->
     [role      |-> history[i].role,
      content   |-> history[i].content,
      timestamp |-> IF (i - 1) \in DOMAIN metadata
                      THEN metadata[i - 1].timestamp ELSE Undefined]]

\* getMessageCount, lines 110-112.
getMessageCount == Len(conversationHistory)

\* getTokenEstimate, lines 114-121: total += Math.ceil(msg.content.length / 4)
\* over the messages of the history.
RECURSIVE getTokenEstimate(_)
getTokenEstimate(history) ==
  IF history = <<>> THEN 0
  ELSE getTokenEstimate(SubSeq(history, 1, Len(history) - 1))
         + estimateTokens(history[Len(history)].content)

(***************************************************************************)
(* The providers (src/src/providers/openai.ts, anthropic.ts).              *)
(***************************************************************************)
\* The Error both abort checks of OpenAIProvider throw (lines 24 and 46).
CancelError == [cls |-> "Error", msg |-> <<"Request cancelled">>]

\* if (signal?.aborted): OpenAIProvider reads the signal at entry and at every
\* chunk; AnthropicProvider.sendMessage takes no signal parameter at all.
ObservesAbort(prov, signal) == prov = "openai" /\ signal = "aborted"

\* Whether a chunk of the stream is handed to onStreamChunk:
\* openai: if (delta?.content), a truthiness test, false for '';
\* anthropic: content_block_delta with a text_delta, whatever its text.
DeliversChunk(prov, chunk) ==
  IF prov = "openai"
    THEN chunk.type = "text" /\ chunk.text # <<>>
    ELSE chunk.type = "text"

ApiErrorPrefix(prov) ==
  IF prov = "openai" THEN "OpenAI API Error: " ELSE "Anthropic API Error: "

\* The catch block of sendMessage (openai 59-69, anthropic 50-60): always an Error.
ProviderCatch(prov, error) ==
  [cls |-> "Error",
   msg |-> IF error.cls = "APIError" THEN <<ApiErrorPrefix(prov)>> \o error.msg
           ELSE IF error.cls = "Error" THEN <<"Error: ">> \o error.msg
           ELSE <<"An unknown error occurred">>]

(***************************************************************************)
(* Operator input: String.prototype.trim, split(/\s+/), toLowerCase.       *)
(***************************************************************************)
RECURSIVE TrimStart(_)
TrimStart(t) == IF t # <<>> /\ Head(t) = " " THEN TrimStart(Tail(t)) ELSE t

RECURSIVE TrimEnd(_)
TrimEnd(t) ==
  IF t # <<>> /\ t[Len(t)] = " " THEN TrimEnd(SubSeq(t, 1, Len(t) - 1)) ELSE t

Trim(t) == TrimEnd(TrimStart(t))

\* The first run of non-space characters of t.
RECURSIVE FirstWord(_)
FirstWord(t) ==
  IF t = <<>> \/ Head(t) = " " THEN <<>> ELSE <<Head(t)>> \o FirstWord(Tail(t))

\* input.trim().split(/\s+/) of a text: its words ('' splits into ['']).
RECURSIVE SplitWords(_)
SplitWords(t) ==
  LET w == FirstWord(t)
      rest == TrimStart(SubSeq(t, Len(w) + 1, Len(t)))
  IN  IF rest = <<>> THEN <<w>> ELSE <<w>> \o SplitWords(rest)

LowerChar(c) == IF c = "C" THEN "c" ELSE c

toLowerCase(t) == [i \in 1..Len(t) |-> LowerChar(t[i])]

\* CommandHandler.isCommand (commands.ts 39-41) and ChatUI's trimmed.startsWith('/').
isCommand(input) == input # <<>> /\ Head(input) = "/"

CmdClear == <<"/", "c", "l", "e", "a", "r">>
CmdExit == <<"/", "e", "x", "i", "t">>
CmdQuit == <<"/", "q", "u", "i", "t">>
CmdProvider == <<"/", "p", "r", "o", "v", "i", "d", "e", "r">>
CmdProviders == CmdProvider \o <<"s">>
IdOpenai == <<"o", "p", "e", "n", "a", "i">>
IdAnthropic == <<"a", "n", "t", "h", "r", "o", "p", "i", "c">>

\* config.providers: the ids the configuration knows, each with a key and models.
ProviderOfId(word) ==
  IF word = IdOpenai THEN "openai"
  ELSE IF word = IdAnthropic THEN "anthropic"
  ELSE "none"

\* The lines the operator may enter.
Lines ==
  { <<>>, <<" ">>, <<"h", "i">>, <<" ", "h", "i", " ">>,
    CmdClear, <<"/", "C", "l", "e", "a", "r">>, CmdExit,
    CmdProvider, CmdProvider \o <<" ">> \o IdOpenai, CmdProvider \o <<" ", "x">>,
    <<"/", "x">> }

\* CommandHandler.execute (commands.ts 68-123): which handler a command line reaches.
\*   "exit", "clear", "switch" (a /provider <id> that passes validation and
\*   suspends at the save), or "report" (a handler that only returns a message).
CommandKind(input) ==
  LET parts == SplitWords(Trim(input))
      command == toLowerCase(parts[1])
      args == Tail(parts)
  IN  IF command \in {CmdExit, CmdQuit} THEN "exit"
      ELSE IF command = CmdClear THEN "clear"
      ELSE IF command \in {CmdProvider, CmdProviders} /\ args # <<>>
              /\ ProviderOfId(args[1]) # "none" THEN "switch"
      ELSE "report"

\* handleProvider, line 281: const providerId = args[0].
CommandTarget(input) == ProviderOfId(SplitWords(Trim(input))[2])

(***************************************************************************)
(* TextWrapper (src/src/text-wrapper.ts).  A wrapper is a record of the    *)
(* class's four mutable fields; an operation yields the wrapper after it   *)
(* and the string it returns.  The newline character is "\n".              *)
(***************************************************************************)
rightMargin == 6

MaxWidthOfNoFloor(width) == width - rightMargin

\* Math.max(40, terminalWidth - this.rightMargin), lines 15 and 132.
MaxWidthOf(width) ==
  IF width - rightMargin > 40 THEN width - rightMargin ELSE 40

\* constructor, lines 13-17.
NewTextWrapper(width, initialPosition) ==
  [linePosition |-> initialPosition, maxWidth |-> MaxWidthOf(width),
   wordBuffer |-> <<>>, lineBuffer |-> <<>>]

\* wrapChunk, lines 30-35: a newline.  flushWord() is evaluated before
\* flushLine(), so the pending word is put before the buffered line.
WrapNewline(w, result) ==
  [tw     |-> [w EXCEPT !.wordBuffer = <<>>, !.lineBuffer = <<>>,
                        !.linePosition = 0],
   result |-> result \o w.wordBuffer \o w.lineBuffer \o <<"\n">>]

\* wrapChunk, lines 38-61: a space.
WrapSpace(w, result) ==
  LET word == w.wordBuffer
      wordLength == Len(word)
      wraps == w.linePosition + wordLength > w.maxWidth /\ w.linePosition > 0
      line == IF wraps THEN word ELSE w.lineBuffer \o word
      pos == IF wraps THEN wordLength ELSE w.linePosition + wordLength
      fits == pos + 1 <= w.maxWidth
  IN  [tw     |-> [w EXCEPT !.wordBuffer = <<>>,
                            !.lineBuffer = IF fits THEN line \o <<" ">> ELSE line,
                            !.linePosition = IF fits THEN pos + 1 ELSE pos],
       result |-> IF wraps THEN result \o w.lineBuffer \o <<"\n">> ELSE result]

\* wrapChunk, lines 28-65: the body of the loop for one character.
WrapChar(w, result, char) ==
  IF char = "\n" THEN WrapNewline(w, result)
  ELSE IF char = " " THEN WrapSpace(w, result)
  ELSE [tw |-> [w EXCEPT !.wordBuffer = @ \o <<char>>], result |-> result]

\* wrapChunk, lines 27-65: the loop over chunk[from..to], left to right.  The
\* range is walked by halves, first the left one, then the right one from
\* where the left one ended: the same fold, with a shallow recursion.  The
\* loop only ever appends to result; testing that makes the left half be
\* computed before the right half is entered.
RECURSIVE WrapLoop(_, _, _, _, _)
WrapLoop(w, result, chunk, from, to) ==
  IF from > to THEN [tw |-> w, result |-> result]
  ELSE IF from = to THEN WrapChar(w, result, chunk[from])
  ELSE LET mid == (from + to) \div 2
           left == WrapLoop(w, result, chunk, from, mid)
       IN  CASE Len(left.result) >= Len(result) ->
                  WrapLoop(left.tw, left.result, chunk, mid + 1, to)

WrapEndNeverWraps(w, result) ==
  [tw |-> [w EXCEPT !.lineBuffer = <<>>], result |-> result \o w.lineBuffer]

\* wrapChunk, lines 67-87: after the loop, the pending word and the line buffer.
WrapEnd(w, result) ==
  LET wordLength == Len(w.wordBuffer)
      long == w.wordBuffer # <<>> /\ wordLength > w.maxWidth
      wraps == /\ w.wordBuffer # <<>> /\ ~long
               /\ w.linePosition + wordLength > w.maxWidth /\ w.linePosition > 0
      w1 == IF long THEN [w EXCEPT !.wordBuffer = <<>>,
                                   !.linePosition = @ + wordLength]
            ELSE IF wraps THEN [w EXCEPT !.lineBuffer = <<>>, !.linePosition = 0]
            ELSE w
      r1 == IF long THEN result \o w.wordBuffer
            ELSE IF wraps THEN result \o w.lineBuffer \o <<"\n">>
            ELSE result
  IN  [tw |-> [w1 EXCEPT !.lineBuffer = <<>>], result |-> r1 \o w1.lineBuffer]

\* wrapChunk, lines 24-90.
wrapChunk(w, chunk) ==
  LET looped == WrapLoop(w, <<>>, chunk, 1, Len(chunk))
  IN  WrapEnd(looped.tw, looped.result)

\* flush, lines 95-99 (flushWord 104-108, flushLine 113-117).
flush(w) ==
  [tw     |-> [w EXCEPT !.wordBuffer = <<>>, !.lineBuffer = <<>>],
   result |-> w.wordBuffer \o w.lineBuffer]

\* reset, lines 122-126.
reset(w, initialPosition) ==
  [w EXCEPT !.linePosition = initialPosition, !.wordBuffer = <<>>,
            !.lineBuffer = <<>>]

updateWidthKeepsWidth(w, width) == w

\* updateWidth, lines 131-133.
updateWidth(w, width) == [w EXCEPT !.maxWidth = MaxWidthOf(width)]

(***************************************************************************)
(* The turn coordinators.  Each operator is the part of a handler that     *)
(* touches the coordinator's own state.                                    *)
(***************************************************************************)
Running == exited = "no"

NoEvent == [type |-> "none", kind |-> "none", gated |-> FALSE]

\* A line was read; gated: isProcessing was set when it arrived.
LineEvent(l) ==
  [type  |-> "line",
   kind  |-> IF Trim(l) = <<>> THEN "empty"
             ELSE IF isCommand(Trim(l)) THEN "command" ELSE "message",
   gated |-> isProcessing]

\* index.ts 164-206: isProcessing = true, hide the cursor, start the spinner.
ReadlineStartTurn(id) ==
  /\ isProcessing' = TRUE
  /\ cursorVisible' = FALSE
  /\ spinnerIntervals' = spinnerIntervals \cup {id}
  /\ promptShown' = FALSE
  /\ UNCHANGED <<isLoading, explicitExit>>

ReadlineOnChunkNeverClears(id, firstChunk) ==
  UNCHANGED <<isProcessing, isLoading, spinnerIntervals, cursorVisible,
              promptShown, explicitExit>>

\* index.ts 210-215: the callback's if (firstChunk) { clearInterval(...) }.
ReadlineOnChunk(id, firstChunk) ==
  /\ spinnerIntervals' = IF firstChunk THEN spinnerIntervals \ {id} ELSE spinnerIntervals
  /\ UNCHANGED <<isProcessing, isLoading, cursorVisible, promptShown, explicitExit>>

\* index.ts 230-234: after the await, on success.
ReadlineTurnSucceeded(id) ==
  /\ cursorVisible' = TRUE
  /\ isProcessing' = FALSE
  /\ promptShown' = TRUE
  /\ UNCHANGED <<isLoading, spinnerIntervals, explicitExit>>

ReadlineTurnFailedStaysGated(id) ==
  /\ spinnerIntervals' = spinnerIntervals \ {id}
  /\ cursorVisible' = TRUE
  /\ promptShown' = TRUE
  /\ UNCHANGED <<isProcessing, isLoading, explicitExit>>

\* index.ts 236-255: the catch block.
ReadlineTurnFailed(id) ==
  /\ spinnerIntervals' = spinnerIntervals \ {id}
  /\ cursorVisible' = TRUE
  /\ isProcessing' = FALSE
  /\ promptShown' = TRUE
  /\ UNCHANGED <<isLoading, explicitExit>>

\* ChatUI.tsx 65-79: the two setMessages of handleSubmit; the user message
\* and an empty assistant message are added to the transcript.
ChatUIAddTurn(prev, trimmed) ==
  prev \o <<[role |-> "user", content |-> trimmed],
            [role |-> "assistant", content |-> <<>>]>>

\* ChatUI.tsx 95-105: the callback's setMessages; the last message is given
\* the text received so far if it is an assistant message.
ChatUIUpdateLast(prev, content) ==
  IF prev # <<>> /\ prev[Len(prev)].role = "assistant"
    THEN [prev EXCEPT ![Len(prev)].content = content]
  ELSE prev

\* ChatUI.tsx 62-63: setIsProcessing(true); setIsLoading(true).
ChatUIStartTurn(id) ==
  /\ isProcessing' = TRUE
  /\ isLoading' = TRUE
  /\ UNCHANGED <<spinnerIntervals, cursorVisible, promptShown, explicitExit>>

\* ChatUI.tsx 86-90: if (firstChunk) { setIsLoading(false) }.
ChatUIOnChunk(id, firstChunk) ==
  /\ isLoading' = IF firstChunk THEN FALSE ELSE isLoading
  /\ UNCHANGED <<isProcessing, spinnerIntervals, cursorVisible,
                 promptShown, explicitExit>>

\* ChatUI.tsx 108-109 and 111-112: both ways out of the try.
ChatUITurnEnded(id) ==
  /\ isProcessing' = FALSE
  /\ isLoading' = FALSE
  /\ UNCHANGED <<spinnerIntervals, cursorVisible, promptShown, explicitExit>>

StartTurn(id) ==
  IF ui = "readline" THEN ReadlineStartTurn(id)
  ELSE IF ui = "ink" THEN ChatUIStartTurn(id)
  ELSE UNCHANGED uiVars

OnChunk(id, firstChunk) ==
  IF ui = "readline" THEN ReadlineOnChunk(id, firstChunk)
  ELSE IF ui = "ink" THEN ChatUIOnChunk(id, firstChunk)
  ELSE UNCHANGED uiVars

TurnSucceeded(id) ==
  IF ui = "readline" THEN ReadlineTurnSucceeded(id)
  ELSE IF ui = "ink" THEN ChatUITurnEnded(id)
  ELSE UNCHANGED uiVars

TurnFailed(id) ==
  IF ui = "readline" THEN ReadlineTurnFailed(id)
  ELSE IF ui = "ink" THEN ChatUITurnEnded(id)
  ELSE UNCHANGED uiVars

\* rl.prompt() at the end of a handler path of index.ts; ChatUI has no prompt.
Prompt ==
  /\ promptShown' = (IF ui = "readline" THEN TRUE ELSE promptShown)
  /\ UNCHANGED <<isProcessing, isLoading, spinnerIntervals,
                 cursorVisible, explicitExit>>

(***************************************************************************)
(* One activation of ChatManager.sendMessage and of the provider call it   *)
(* awaits.  A record of calls holds the locals of both.                    *)
(***************************************************************************)
Without(f, k) == [x \in (DOMAIN f) \ {k} |-> f[x]]

\* new Date(): time is read as the index of the turn in which it is read, so
\* timestamps never decrease and differ from one turn to the next.
Now(turn) == turn

NoOutcome ==
  [id |-> 0, status |-> "none", cause |-> "none", message |-> <<>>,
   histBefore |-> <<>>, delivered |-> 0, received |-> <<>>]

ErrorCause(error) ==
  IF error.cls = "APIError" THEN "api"
  ELSE IF error.cls = "Error" THEN "error" ELSE "nonerror"

\* chat.ts 39-57 and the provider's entry: push the user message, then call the
\* provider, which throws at once when it sees the signal aborted and otherwise
\* suspends at the await of the streaming request.
BeginCall(userMessage, signal) ==
  LET id == nextId + 1
      before == getHistory(conversationHistory, messageMetadata)
      userMessageIndex == Len(conversationHistory)
      pushed == SendMessagePush(conversationHistory, messageMetadata, userMessage, Now(id))
      rolled == SendMessageRollback(pushed.history, pushed.metadata, userMessageIndex)
      message == SendMessageRethrow(ProviderCatch(provider, CancelError))
  IN  /\ nextId' = id
      /\ IF ObservesAbort(provider, signal)
           THEN /\ conversationHistory' = rolled.history
                /\ messageMetadata' = rolled.metadata
                /\ calls' = calls
                /\ outcome' = [id |-> id, status |-> "error", cause |-> "cancelled",
                               message |-> message, histBefore |-> before,
                               delivered |-> 0, received |-> <<>>]
                /\ cancelledAs' = cancelledAs \cup {message}
           ELSE /\ conversationHistory' = pushed.history
                /\ messageMetadata' = pushed.metadata
                /\ calls' = MapSet(calls, id,
                     [userMessage |-> userMessage, userMessageIndex |-> userMessageIndex,
                      tokenCount |-> 0, prov |-> provider, signal |-> signal,
                      pc |-> "create", fullResponse |-> <<>>, firstChunk |-> TRUE,
                      cleared |-> 0, delivered |-> 0, received |-> <<>>, n |-> 0,
                      histBefore |-> before, sent |-> pushed.history])
                /\ outcome' = NoOutcome
                /\ UNCHANGED cancelledAs
      /\ UNCHANGED provider

setProviderKeepsOpenai(p) == "openai"

\* chat.ts 16-18: the value this.provider has after setProvider(provider).
setProvider(p) == p

\* chat.ts 69-79 after the provider's catch: roll back and reject.
Fail(c, cause, error) ==
  LET r == calls[c]
      message == SendMessageRethrow(ProviderCatch(r.prov, error))
      rolled == SendMessageRollback(conversationHistory, messageMetadata,
                                    r.userMessageIndex)
  IN  /\ conversationHistory' = rolled.history
      /\ messageMetadata' = rolled.metadata
      /\ calls' = Without(calls, c)
      /\ outcome' = [id |-> c, status |-> "error", cause |-> cause,
                     message |-> message, histBefore |-> r.histBefore,
                     delivered |-> r.delivered, received |-> r.received]
      /\ cancelledAs' = IF cause = "cancelled" THEN cancelledAs \cup {message}
                        ELSE cancelledAs
      /\ TurnFailed(c)
      /\ ev' = NoEvent
      /\ UNCHANGED <<provider, nextId, ui, exited, activeProvider, pendingSaves, messages>>

\* chat.ts 59-68 after the provider returned fullResponse.
Succeed(c) ==
  LET r == calls[c]
      done == SendMessageFinish(conversationHistory, messageMetadata,
                                r.fullResponse, r.tokenCount, Now(c))
  IN  /\ conversationHistory' = done.history
      /\ messageMetadata' = done.metadata
      /\ calls' = Without(calls, c)
      /\ outcome' = [id |-> c, status |-> "ok", cause |-> "none", message |-> <<>>,
                     histBefore |-> r.histBefore, delivered |-> r.delivered,
                     received |-> r.received]
      /\ TurnSucceeded(c)
      /\ ev' = NoEvent
      /\ UNCHANGED <<provider, nextId, cancelledAs, ui, exited, activeProvider,
                     pendingSaves, messages>>

AccumulateKeepsLast(fullResponse, text) == text

\* fullResponse += text (anthropic 43), fullResponse += content (openai 52).
Accumulate(fullResponse, text) == fullResponse \o text

\* The provider's loop body for a text delta it delivers (openai 51-54,
\* anthropic 42-45), then chat.ts 52-55 and the caller's callback, which is
\* handed the text.  The callback of a client keeps what it is handed, in
\* order, in received; the front ends paint it.
Deliver(c, text) ==
  LET r == calls[c]
      full == Accumulate(r.fullResponse, text)
  IN  /\ calls' = [calls EXCEPT ![c] =
                     [r EXCEPT !.fullResponse = full,
                               !.tokenCount = estimateTokens(full),
                               !.firstChunk = FALSE,
                               !.cleared = IF r.firstChunk THEN @ + 1 ELSE @,
                               !.delivered = @ + 1,
                               !.received = IF ui = "client" THEN Append(@, text)
                                            ELSE @,
                               !.n = @ + 1]]
      /\ OnChunk(c, r.firstChunk)
      /\ messages' = IF ui = "ink" THEN ChatUIUpdateLast(messages, full) ELSE messages
      /\ ev' = NoEvent
      /\ UNCHANGED <<provider, conversationHistory, messageMetadata, nextId,
                     outcome, cancelledAs, ui, exited, activeProvider, pendingSaves>>

(***************************************************************************)
(* Backend events.                                                         *)
(***************************************************************************)
\* await client.chat.completions.create(...) / client.messages.stream(...) resolves.
CreateResolves(c) ==
  /\ Running
  /\ c \in DOMAIN calls
  /\ calls[c].pc = "create"
  /\ calls' = [calls EXCEPT ![c].pc = "stream"]
  /\ ev' = NoEvent
  /\ UNCHANGED <<provider, conversationHistory, messageMetadata, nextId,
                 outcome, cancelledAs, ui, uiVars, exited, activeProvider,
                 pendingSaves, messages>>
  /\ UNCHANGED progRest

\* The streaming request is rejected.
CreateRejects(c, error) ==
  /\ Running
  /\ c \in DOMAIN calls
  /\ calls[c].pc = "create"
  /\ Fail(c, ErrorCause(error), error)
  /\ UNCHANGED progRest

\* for await (const chunk of stream): one chunk arrives.
StreamYields(c, chunk) ==
  /\ Running
  /\ c \in DOMAIN calls
  /\ calls[c].pc = "stream"
  /\ calls[c].n < MaxChunks
  /\ IF ObservesAbort(calls[c].prov, calls[c].signal)
       THEN Fail(c, "cancelled", CancelError)
       ELSE IF DeliversChunk(calls[c].prov, chunk)
         THEN Deliver(c, chunk.text)
         ELSE /\ calls' = [calls EXCEPT ![c].n = @ + 1]
              /\ ev' = NoEvent
              /\ UNCHANGED <<provider, conversationHistory, messageMetadata,
                             nextId, outcome, cancelledAs, ui, uiVars, exited,
                             activeProvider, pendingSaves, messages>>
  /\ UNCHANGED progRest

\* The stream ends: the loop exits and the provider returns fullResponse.
StreamEnds(c) ==
  /\ Running
  /\ c \in DOMAIN calls
  /\ calls[c].pc = "stream"
  /\ Succeed(c)
  /\ UNCHANGED progRest

\* The stream's iterator throws.
StreamThrows(c, error) ==
  /\ Running
  /\ c \in DOMAIN calls
  /\ calls[c].pc = "stream"
  /\ Fail(c, ErrorCause(error), error)
  /\ UNCHANGED progRest

(***************************************************************************)
(* Operator input: rl.on('line') of index.ts (114-256) and handleSubmit of *)
(* ChatUI.tsx (50-123), one action per path through the handler.           *)
(***************************************************************************)
FrontEnd == ui \in {"readline", "ink"}

GatedNever(input) == FALSE

GatedMessagesOnly(input) == isProcessing /\ ~isCommand(input)

\* index.ts 118-120: if (isProcessing) return, the handler's first test;
\* ChatUI.tsx 53: if (!trimmed || isProcessing) return.  A setIsProcessing call
\* of ChatUI is taken to be rendered before the next submit is handled.
Gated(input) == isProcessing

clearHistoryKeepsMetadata ==
  /\ conversationHistory' = <<>>
  /\ UNCHANGED messageMetadata

\* ChatManager.clearHistory (chat.ts 105-108).
clearHistory ==
  /\ conversationHistory' = <<>>
  /\ messageMetadata' = EmptyMap

\* index.ts 118-120 / ChatUI.tsx 53: the line is dropped while a turn runs.
LineIgnored(l) ==
  /\ Running /\ FrontEnd
  /\ Gated(Trim(l))
  /\ ev' = LineEvent(l)
  /\ promptShown' = (IF ui = "readline" THEN FALSE ELSE promptShown)
  /\ UNCHANGED <<provider, conversationHistory, messageMetadata, calls,
                 nextId, outcome, cancelledAs, ui, isProcessing, isLoading,
                 spinnerIntervals, cursorVisible, explicitExit,
                 exited, activeProvider, pendingSaves, messages>>
  /\ UNCHANGED progRest

\* index.ts 122-125 / ChatUI.tsx 53: an empty line only shows the prompt again.
LineEmpty(l) ==
  /\ Running /\ FrontEnd
  /\ ~Gated(Trim(l))
  /\ Trim(l) = <<>>
  /\ ev' = LineEvent(l)
  /\ Prompt
  /\ UNCHANGED <<provider, conversationHistory, messageMetadata, calls,
                 nextId, outcome, cancelledAs, ui, exited, activeProvider,
                 pendingSaves, messages>>
  /\ UNCHANGED progRest

\* index.ts 164-228 / ChatUI.tsx 61-106: a message starts a turn.  Neither
\* front end passes a signal to chatManager.sendMessage.
LineMessage(l) ==
  /\ Running /\ FrontEnd
  /\ ~Gated(Trim(l))
  /\ Trim(l) # <<>>
  /\ ~isCommand(Trim(l))
  /\ nextId < MaxTurns
  /\ BeginCall(Trim(l), "undefined")
  /\ StartTurn(nextId + 1)
  /\ messages' = IF ui = "ink" THEN ChatUIAddTurn(messages, Trim(l)) ELSE messages
  /\ ev' = LineEvent(l)
  /\ UNCHANGED <<ui, exited, activeProvider, pendingSaves>>
  /\ UNCHANGED progRest

\* /exit, /quit: index.ts 144-148 (explicitExit, rl.close(), process.exit(0)),
\* ChatUI.tsx 149-152.
CommandExit(l) ==
  /\ Running /\ FrontEnd
  /\ ~Gated(Trim(l))
  /\ isCommand(Trim(l))
  /\ CommandKind(Trim(l)) = "exit"
  /\ exited' = "command"
  /\ explicitExit' = (IF ui = "readline" THEN TRUE ELSE explicitExit)
  /\ ev' = LineEvent(l)
  /\ UNCHANGED <<provider, conversationHistory, messageMetadata, calls,
                 nextId, outcome, cancelledAs, ui, isProcessing, isLoading,
                 spinnerIntervals, cursorVisible, promptShown,
                 activeProvider, pendingSaves, messages>>
  /\ UNCHANGED progRest

\* /clear: handleClear (commands.ts 139-146) runs inside the line's macrotask.
CommandClear(l) ==
  /\ Running /\ FrontEnd
  /\ ~Gated(Trim(l))
  /\ isCommand(Trim(l))
  /\ CommandKind(Trim(l)) = "clear"
  /\ clearHistory
  /\ messages' = IF ui = "ink" THEN <<>> ELSE messages
  /\ Prompt
  /\ ev' = LineEvent(l)
  /\ UNCHANGED <<provider, calls, nextId, outcome, cancelledAs, ui, exited,
                 activeProvider, pendingSaves>>
  /\ UNCHANGED progRest

\* A command whose handler only returns a message.
CommandReport(l) ==
  /\ Running /\ FrontEnd
  /\ ~Gated(Trim(l))
  /\ isCommand(Trim(l))
  /\ CommandKind(Trim(l)) = "report"
  /\ Prompt
  /\ ev' = LineEvent(l)
  /\ UNCHANGED <<provider, conversationHistory, messageMetadata, calls,
                 nextId, outcome, cancelledAs, ui, exited, activeProvider,
                 pendingSaves, messages>>
  /\ UNCHANGED progRest

\* /provider <id>: handleProvider (commands.ts 281-325) up to the await of
\* configLoader.save; isProcessing is not set by the command branch.
CommandSwitch(l) ==
  /\ Running /\ FrontEnd
  /\ ~Gated(Trim(l))
  /\ isCommand(Trim(l))
  /\ CommandKind(Trim(l)) = "switch"
  /\ Len(pendingSaves) < MaxPending
  /\ activeProvider' = CommandTarget(l)
  /\ pendingSaves' = Append(pendingSaves, CommandTarget(l))
  /\ promptShown' = (IF ui = "readline" THEN FALSE ELSE promptShown)
  /\ ev' = LineEvent(l)
  /\ UNCHANGED <<provider, conversationHistory, messageMetadata, calls,
                 nextId, outcome, cancelledAs, ui, isProcessing, isLoading,
                 spinnerIntervals, cursorVisible, explicitExit, exited, messages>>
  /\ UNCHANGED progRest

RemoveAt(q, i) == SubSeq(q, 1, i - 1) \o SubSeq(q, i + 1, Len(q))

\* The save resolved: handleProvider 327-343 (setProvider, clearHistory), then
\* the caller prints the result and, in index.ts 159-160, the prompt.
SaveResolves(i) ==
  /\ Running
  /\ i \in 1..Len(pendingSaves)
  /\ provider' = setProvider(pendingSaves[i])
  /\ clearHistory
  /\ messages' = IF ui = "ink" THEN <<>> ELSE messages
  /\ pendingSaves' = RemoveAt(pendingSaves, i)
  /\ Prompt
  /\ ev' = NoEvent
  /\ UNCHANGED <<calls, nextId, outcome, cancelledAs, ui, exited,
                 activeProvider>>
  /\ UNCHANGED progRest

\* The save threw: handleProvider 344-349 returns a failure.
SaveRejects(i) ==
  /\ Running
  /\ i \in 1..Len(pendingSaves)
  /\ pendingSaves' = RemoveAt(pendingSaves, i)
  /\ Prompt
  /\ ev' = NoEvent
  /\ UNCHANGED <<provider, conversationHistory, messageMetadata, calls,
                 nextId, outcome, cancelledAs, ui, exited, activeProvider,
                 messages>>
  /\ UNCHANGED progRest

\* Ctrl+C: process.on('SIGINT') of index.ts 267-272, useInput of ChatUI.tsx 40-45.
Sigint ==
  /\ Running /\ FrontEnd
  /\ exited' = "sigint"
  /\ explicitExit' = (IF ui = "readline" THEN TRUE ELSE explicitExit)
  /\ ev' = [type |-> "sigint", kind |-> "none", gated |-> isProcessing]
  /\ UNCHANGED <<provider, conversationHistory, messageMetadata, calls,
                 nextId, outcome, cancelledAs, ui, isProcessing, isLoading,
                 spinnerIntervals, cursorVisible, promptShown,
                 activeProvider, pendingSaves, messages>>
  /\ UNCHANGED progRest

\* Ctrl+D: rl.on('close') of index.ts 258-264.
RlClose ==
  /\ Running /\ ui = "readline"
  /\ exited' = "close"
  /\ ev' = [type |-> "close", kind |-> "none", gated |-> isProcessing]
  /\ UNCHANGED <<provider, conversationHistory, messageMetadata, calls,
                 nextId, outcome, cancelledAs, ui, uiVars, activeProvider,
                 pendingSaves, messages>>
  /\ UNCHANGED progRest

(***************************************************************************)
(* The messages put through a TextWrapper.                                 *)
(***************************************************************************)
MaxFragments == 3
MaxWrapOps == 2

Rep(c, n) == [i \in 1..n |-> c]

FoxText ==
  <<"T", "h", "e", " ", "q", "u", "i", "c", "k", " ", "b", "r", "o", "w", "n", " ", "f", "o", "x", " ", "j", "u">> \o
  <<"m", "p", "s", " ", "o", "v", "e", "r", " ", "t", "h", "e", " ", "l", "a", "z", "y", " ", "d", "o", "g", ".">>

\* A word after a buffered line, then a newline.
NewlineText == <<"a", "b", " ", "c", "d", "\n", "e", "f">>

\* A token of 41 characters that goes on for two more, then a word.
LongText == Rep("x", 41) \o <<"y", "z", " ", "w">>

\* Two words that fill 38 columns, a third one that does not fit, a newline.
OverText ==
  Rep("a", 18) \o <<" ">> \o Rep("a", 19) \o <<" ">> \o Rep("b", 5) \o <<"\n", "c">>

Texts == {FoxText, NewlineText, LongText, OverText}

\* process.stdout.columns: a narrow terminal, one column past the floor, the default.
Widths == {20, 47, 80}

\* index.ts 173 and 206: column 0 for the echoed input, 5 after the robot prefix.
Columns == {0, 5}

\* Where a fragment of the text may end.  FoxText: after "The quick br" and
\* after "own fox jumps ".  NewlineText: anywhere.  LongText: inside the long
\* token, where it reaches 41 characters, at its end, after the space.
\* OverText: after each word, after the newline.
Cuts(text) ==
  IF text = FoxText THEN {12, 26, 44}
  ELSE IF text = LongText THEN {20, 41, 43, 44, 45}
  ELSE IF text = OverText THEN {18, 39, 44, 45, 46}
  ELSE 0..Len(text)

NoWrapOp == [op |-> "none", arg |-> 0]

\* No TextWrapper is in use.
WrapIdle ==
  /\ wrapped = [text |-> <<>>, terminalWidth |-> 80, initialPosition |-> 0]
  /\ terminalWidth = 80
  /\ tw = NewTextWrapper(80, 0)
  /\ fed = 0
  /\ nfrag = 0
  /\ written = <<>>
  /\ wlast = NoWrapOp
  /\ used = <<>>

\* No usage is accounted.
NoResponse == [status |-> "none", response |-> <<>>, inputTokens |-> 0,
               outputTokens |-> 0, totalTokens |-> 0, message |-> <<>>]

UsageIdle ==
  /\ usageProvider = "openai"
  /\ pricing = Undefined
  /\ totalInputTokens = 0
  /\ totalOutputTokens = 0
  /\ totalTokens = 0
  /\ sessionCost = Undefined
  /\ usageProcessing = FALSE
  /\ usageSaves = <<>>
  /\ usageTurns = 0
  /\ response = NoResponse

\* No turn is painted.  UIRenderer without a theme (text-wrapper.ts 201).
NoTheme == [defined |-> FALSE, user |-> <<>>, ai |-> <<>>]

PaintIdle ==
  /\ columns = 80
  /\ theme = NoTheme
  /\ userWrapper = NewTextWrapper(80, 0)
  /\ textWrapper = NewTextWrapper(80, 5)
  /\ styleOpen = FALSE
  /\ stdout = <<>>
  /\ painting = FALSE
  /\ isFirstChunk = TRUE
  /\ spinners = {}
  /\ paintTurns = 0
  /\ paintChunks = 0
  /\ turnWidths = <<>>

\* The repainting front end (src/unnamed/part_000) is not running.
RepaintIdle ==
  /\ terminal = [rows |-> 24, cols |-> 80, row |-> 0, scrolled |-> 0]
  /\ lastLineCount = 0
  /\ assistantContent = <<>>
  /\ assistantStartTime = [hours |-> 0, minutes |-> 0]
  /\ repainting = FALSE
  /\ repaintTurns = 0
  /\ repaintChunks = 0
  /\ paintedFrom = 0
  /\ paintedRows = 0
  /\ paintedTo = 0

\* No estimate was asked for.
NoEstimate == [op |-> "none", text |-> <<>>, result |-> 0]

EstimateIdle == estimate = NoEstimate

\* No render method has been called.
NoRender ==
  [op |-> "none", status |-> "none", width |-> 0, counts |-> <<>>,
   message |-> [role |-> "user", content |-> <<>>,
                timestamp |-> [hours |-> 0, minutes |-> 0],
                tokenCount |-> -1, isStreaming |-> FALSE]]

\* wrapText is not running.
NoWrapText == [pc |-> "idle", maxWidth |-> 0, paragraphs |-> <<>>, words |-> <<>>,
               currentLine |-> <<>>, remainingWord |-> <<>>, lines |-> <<>>,
               more |-> 0]

RenderIdle == render = NoRender /\ wt = NoWrapText

(***************************************************************************)
(* The program: one of the two front ends over the session.                *)
(***************************************************************************)
Init ==
  /\ provider \in Providers
  /\ activeProvider = provider
  /\ conversationHistory = <<>>
  /\ messageMetadata = EmptyMap
  /\ calls = EmptyMap
  /\ nextId = 0
  /\ outcome = NoOutcome
  /\ cancelledAs = {}
  /\ ui \in {"readline", "ink"}
  /\ isProcessing = FALSE
  /\ isLoading = FALSE
  /\ spinnerIntervals = {}
  /\ cursorVisible = TRUE
  /\ promptShown = TRUE
  /\ explicitExit = FALSE
  /\ exited = "no"
  /\ pendingSaves = <<>>
  /\ ev = NoEvent
  /\ messages = <<>>
  /\ WrapIdle
  /\ UsageIdle
  /\ PaintIdle
  /\ RepaintIdle
  /\ EstimateIdle
  /\ RenderIdle

Ids == 1..MaxTurns

Next ==
  \/ \E l \in Lines : LineIgnored(l)
  \/ \E l \in Lines : LineEmpty(l)
  \/ \E l \in Lines : LineMessage(l)
  \/ \E l \in Lines : CommandExit(l)
  \/ \E l \in Lines : CommandClear(l)
  \/ \E l \in Lines : CommandReport(l)
  \/ \E l \in Lines : CommandSwitch(l)
  \/ \E i \in 1..MaxPending : SaveResolves(i)
  \/ \E i \in 1..MaxPending : SaveRejects(i)
  \/ Sigint
  \/ RlClose
  \/ \E c \in Ids : CreateResolves(c)
  \/ \E c \in Ids, e \in SdkErrors : CreateRejects(c, e)
  \/ \E c \in Ids, k \in StreamChunks : StreamYields(c, k)
  \/ \E c \in Ids : StreamEnds(c)
  \/ \E c \in Ids, e \in SdkErrors : StreamThrows(c, e)

Spec == Init /\ [][Next]_vars

(***************************************************************************)
(* The session on its own: a client of ChatManager that issues one         *)
(* operation at a time, passes an AbortSignal if it likes and may abort    *)
(* it at any moment.                                                       *)
(***************************************************************************)
ClientSend(userMessage, signal) ==
  /\ ui = "client"
  /\ DOMAIN calls = {}
  /\ nextId < MaxTurns
  /\ BeginCall(userMessage, signal)
  /\ ev' = NoEvent
  /\ UNCHANGED <<ui, uiVars, exited, activeProvider, pendingSaves, messages>>
  /\ UNCHANGED progRest

\* AbortController.abort() on the signal handed to a call in flight.
ClientAbort(c) ==
  /\ ui = "client"
  /\ c \in DOMAIN calls
  /\ calls[c].signal = "live"
  /\ calls' = [calls EXCEPT ![c].signal = "aborted"]
  /\ ev' = NoEvent
  /\ UNCHANGED <<provider, conversationHistory, messageMetadata, nextId,
                 outcome, cancelledAs, ui, uiVars, exited, activeProvider,
                 pendingSaves, messages>>
  /\ UNCHANGED progRest

ClientClearHistory ==
  /\ ui = "client"
  /\ DOMAIN calls = {}
  /\ clearHistory
  /\ ev' = NoEvent
  /\ UNCHANGED <<provider, calls, nextId, outcome, cancelledAs, ui, uiVars,
                 exited, activeProvider, pendingSaves, messages>>
  /\ UNCHANGED progRest

\* ChatManager.setProvider (chat.ts 16-18) called by a client, between two
\* calls or while one is in flight.
ClientSetProvider(p) ==
  /\ ui = "client"
  /\ provider' = setProvider(p)
  /\ ev' = [type |-> "setProvider", kind |-> p, gated |-> FALSE]
  /\ UNCHANGED <<conversationHistory, messageMetadata, calls, nextId,
                 outcome, cancelledAs, ui, uiVars, exited, activeProvider,
                 pendingSaves, messages>>
  /\ UNCHANGED progRest

\* What the stream yields to the session on its own: also a second text.
SessionChunks == StreamChunks \cup {[type |-> "text", text |-> <<"d", "e">>]}

SessionInit ==
  /\ provider \in Providers
  /\ activeProvider = provider
  /\ conversationHistory = <<>>
  /\ messageMetadata = EmptyMap
  /\ calls = EmptyMap
  /\ nextId = 0
  /\ outcome = NoOutcome
  /\ cancelledAs = {}
  /\ ui = "client"
  /\ isProcessing = FALSE
  /\ isLoading = FALSE
  /\ spinnerIntervals = {}
  /\ cursorVisible = TRUE
  /\ promptShown = TRUE
  /\ explicitExit = FALSE
  /\ exited = "no"
  /\ pendingSaves = <<>>
  /\ ev = NoEvent
  /\ messages = <<>>
  /\ WrapIdle
  /\ UsageIdle
  /\ PaintIdle
  /\ RepaintIdle
  /\ EstimateIdle
  /\ RenderIdle

SessionNext ==
  \/ \E t \in UserTexts, s \in Signals : ClientSend(t, s)
  \/ \E c \in Ids : ClientAbort(c)
  \/ ClientClearHistory
  \/ \E p \in Providers : ClientSetProvider(p)
  \/ \E c \in Ids : CreateResolves(c)
  \/ \E c \in Ids, e \in SdkErrors : CreateRejects(c, e)
  \/ \E c \in Ids, k \in SessionChunks : StreamYields(c, k)
  \/ \E c \in Ids : StreamEnds(c)
  \/ \E c \in Ids, e \in SdkErrors : StreamThrows(c, e)

SessionSpec == SessionInit /\ [][SessionNext]_vars

(***************************************************************************)
(* A TextWrapper at work on one message.  With ui = "client" a caller uses *)
(* the class as it likes; with ui = "readline" the wrapper is one of the   *)
(* two that index.ts builds for a turn: userWrapper (column 0), given the  *)
(* whole input at once, or textWrapper (column 5), given the fragments of  *)
(* the response.                                                           *)
(***************************************************************************)
WrapOpen == wlast.op # "end"

\* The wrapper takes the characters of the text up to position to as one
\* fragment: wrapChunk called by a client, or by the stream callback
\* (index.ts 220), which writes what it returns to the terminal (223-227).
CallWrapChunk(to) ==
  /\ ui = "client" \/ (ui = "readline" /\ wrapped.initialPosition = 5)
  /\ WrapOpen
  /\ to \in fed..Len(wrapped.text)
  /\ to = fed \/ to \in Cuts(wrapped.text)
  /\ to > fed => nfrag < MaxFragments
  /\ LET out == wrapChunk(tw, SubSeq(wrapped.text, fed + 1, to))
     IN  /\ tw' = out.tw
         /\ written' = written \o out.result
  /\ fed' = to
  /\ nfrag' = IF to > fed THEN nfrag + 1 ELSE nfrag
  /\ wlast' = [op |-> "wrapChunk", arg |-> to - fed]
  /\ UNCHANGED <<wrapped, terminalWidth, used>>
  /\ UNCHANGED wrapRest

\* index.ts 173-181: the input line is put through userWrapper in one call
\* and what comes back is printed; the wrapper is not used again.
EchoUserInput ==
  /\ ui = "readline" /\ wrapped.initialPosition = 0
  /\ wlast.op = "none"
  /\ \A i \in 1..Len(wrapped.text) : wrapped.text[i] # "\n"
  /\ LET out == wrapChunk(tw, wrapped.text)
     IN  /\ tw' = out.tw
         /\ written' = written \o out.result
  /\ fed' = Len(wrapped.text)
  /\ nfrag' = 1
  /\ wlast' = [op |-> "end", arg |-> 0]
  /\ UNCHANGED <<wrapped, terminalWidth, used>>
  /\ UNCHANGED wrapRest

\* index.ts 230-234 and 236-255: the stream is over; textWrapper is dropped
\* as it is, neither path calls flush().
MessageEnds ==
  /\ ui = "readline" /\ wrapped.initialPosition = 5
  /\ WrapOpen
  /\ wlast' = [op |-> "end", arg |-> 0]
  /\ UNCHANGED <<tw, wrapped, terminalWidth, fed, nfrag, written, used>>
  /\ UNCHANGED wrapRest

CallFlush ==
  /\ ui = "client"
  /\ Len(used) < MaxWrapOps
  /\ LET out == flush(tw)
     IN  /\ tw' = out.tw
         /\ written' = written \o out.result
  /\ wlast' = [op |-> "flush", arg |-> 0]
  /\ used' = Append(used, "flush")
  /\ UNCHANGED <<wrapped, terminalWidth, fed, nfrag>>
  /\ UNCHANGED wrapRest

CallReset(initialPosition) ==
  /\ ui = "client"
  /\ Len(used) < MaxWrapOps
  /\ tw' = reset(tw, initialPosition)
  /\ wlast' = [op |-> "reset", arg |-> initialPosition]
  /\ used' = Append(used, "reset")
  /\ UNCHANGED <<wrapped, terminalWidth, fed, nfrag, written>>
  /\ UNCHANGED wrapRest

CallUpdateWidth(width) ==
  /\ ui = "client"
  /\ Len(used) < MaxWrapOps
  /\ tw' = updateWidth(tw, width)
  /\ terminalWidth' = width
  /\ wlast' = [op |-> "updateWidth", arg |-> width]
  /\ used' = Append(used, "updateWidth")
  /\ UNCHANGED <<wrapped, fed, nfrag, written>>
  /\ UNCHANGED wrapRest

WrapInit ==
  /\ ui \in {"client", "readline"}
  /\ wrapped \in [text : Texts, terminalWidth : Widths, initialPosition : Columns]
  /\ terminalWidth = wrapped.terminalWidth
  /\ tw = NewTextWrapper(wrapped.terminalWidth, wrapped.initialPosition)
  /\ fed = 0
  /\ nfrag = 0
  /\ written = <<>>
  /\ wlast = NoWrapOp
  /\ used = <<>>
  /\ provider = "openai"
  /\ activeProvider = provider
  /\ conversationHistory = <<>>
  /\ messageMetadata = EmptyMap
  /\ calls = EmptyMap
  /\ nextId = 0
  /\ outcome = NoOutcome
  /\ cancelledAs = {}
  /\ isProcessing = FALSE
  /\ isLoading = FALSE
  /\ spinnerIntervals = {}
  /\ cursorVisible = TRUE
  /\ promptShown = TRUE
  /\ explicitExit = FALSE
  /\ exited = "no"
  /\ pendingSaves = <<>>
  /\ ev = NoEvent
  /\ messages = <<>>
  /\ UsageIdle
  /\ PaintIdle
  /\ RepaintIdle
  /\ EstimateIdle
  /\ RenderIdle

WrapNext ==
  \/ \E to \in 0..Len(wrapped.text) : CallWrapChunk(to)
  \/ EchoUserInput
  \/ MessageEnds
  \/ CallFlush
  \/ \E p \in Columns : CallReset(p)
  \/ \E width \in Widths : CallUpdateWidth(width)

WrapSpec == WrapInit /\ [][WrapNext]_vars

(***************************************************************************)
(* Usage accounting.  The providers that return { response, usage }         *)
(* (src/unnamed/part_001 OpenAIProvider, src/unnamed/part_011               *)
(* AnthropicProvider), the session's running totals, and the status bar of *)
(* the ChatUI that reads them (src/README.md 94-323).                       *)
(***************************************************************************)
\* What the backend reports at the end of a stream: OpenAI's last chunk.usage,
\* Anthropic's finalMessage.usage; a backend may report nothing.
NoUsage == [reported |-> FALSE, input |-> 0, output |-> 0]

UsageReports == {NoUsage, [reported |-> TRUE, input |-> 3, output |-> 2]}

Responses == {<<>>, <<"a", "b", "c">>}

OrMinusOne(reported, value) == IF reported THEN value ELSE -1

\* usage?.prompt_tokens || 0 (part_001 69-71): 0 for undefined and for 0.
OrZero(reported, value) == IF reported /\ value # 0 THEN value ELSE 0

\* OpenAIProvider.sendMessage, part_001 65-73: the value returned.
OpenAIReturn(fullResponse, usage) ==
  [status |-> "ok", response |-> fullResponse,
   inputTokens  |-> OrZero(usage.reported, usage.input),
   outputTokens |-> OrZero(usage.reported, usage.output),
   totalTokens  |-> OrZero(usage.reported, usage.input + usage.output),
   message |-> <<>>]

\* The TypeError of reading a property of undefined.
TypeError == [cls |-> "Error", msg |-> <<"Cannot read properties of undefined">>]

\* AnthropicProvider.sendMessage, part_011 138-160: finalMessage.usage is read
\* without a test; when it is undefined the read throws inside the try and
\* the catch block rethrows it as an Error.
AnthropicReturn(fullResponse, usage) ==
  IF usage.reported
    THEN [status |-> "ok", response |-> fullResponse,
          inputTokens |-> usage.input, outputTokens |-> usage.output,
          totalTokens |-> usage.input + usage.output, message |-> <<>>]
    ELSE [status |-> "error", response |-> <<>>, inputTokens |-> 0,
          outputTokens |-> 0, totalTokens |-> 0,
          message |-> ProviderCatch("anthropic", TypeError).msg]

ProviderReturn(prov, fullResponse, usage) ==
  IF prov = "openai" THEN OpenAIReturn(fullResponse, usage)
  ELSE AnthropicReturn(fullResponse, usage)

\* The provider's catch for what the SDK threw (part_001 74-84, part_011 150-160).
ProviderThrows(prov, error) ==
  [status |-> "error", response |-> <<>>, inputTokens |-> 0, outputTokens |-> 0,
   totalTokens |-> 0, message |-> ProviderCatch(prov, error).msg]

NoPricing == [inputTokensPer1M |-> Undefined, outputTokensPer1M |-> Undefined]

Pricings == {NoPricing, [inputTokensPer1M |-> 3, outputTokensPer1M |-> 15]}

\* getSessionCost(pricing): the cost of the totals, in millionths of a
\* dollar; unavailable (null) without pricing.
getSessionCost(input, output, price) ==
  IF price = NoPricing THEN Undefined
  ELSE input * price.inputTokensPer1M + output * price.outputTokensPer1M

\* sendMessage of the session: the usage a provider returned is added to the
\* running total once the turn has completed; a failed turn adds nothing.
AddUsage(total, status, tokens) == IF status = "ok" THEN total + tokens ELSE total

\* The call in flight: which provider it runs on.
Pending(prov) ==
  [status |-> "pending", response |-> <<>>, inputTokens |-> 0, outputTokens |-> 0,
   totalTokens |-> 0, message |-> <<prov>>]

\* handleSubmit, README.md 149-184: a message is submitted; sendMessage runs
\* up to the provider's await.
UsageStartTurn ==
  /\ ~usageProcessing
  /\ usageTurns < MaxTurns
  /\ usageProcessing' = TRUE
  /\ usageTurns' = usageTurns + 1
  /\ response' = Pending(usageProvider)
  /\ UNCHANGED <<usageProvider, pricing, totalInputTokens, totalOutputTokens,
                 totalTokens, sessionCost, usageSaves>>
  /\ UNCHANGED usageRest

\* The stream ends: the provider returns or throws (part_001 65-84, part_011
\* 138-160); on a return the session adds the usage to its totals and
\* handleSubmit (README.md 207-216) reads them into the status bar; on a throw
\* the catch (217-230) only reports.
UsageStreamEnds(fullResponse, usage) ==
  /\ usageProcessing
  /\ response.status = "pending"
  /\ LET returned == ProviderReturn(response.message[1], fullResponse, usage)
         input == AddUsage(totalInputTokens, returned.status, returned.inputTokens)
         output == AddUsage(totalOutputTokens, returned.status, returned.outputTokens)
     IN  /\ response' = returned
         /\ totalInputTokens' = input
         /\ totalOutputTokens' = output
         /\ totalTokens' = IF returned.status = "ok" THEN input + output ELSE totalTokens
         /\ sessionCost' = IF returned.status = "ok"
                             THEN getSessionCost(input, output, pricing) ELSE sessionCost
  /\ usageProcessing' = FALSE
  /\ UNCHANGED <<usageProvider, pricing, usageSaves, usageTurns>>
  /\ UNCHANGED usageRest

\* The request or the stream throws.
UsageStreamThrows(error) ==
  /\ usageProcessing
  /\ response.status = "pending"
  /\ response' = ProviderThrows(response.message[1], error)
  /\ usageProcessing' = FALSE
  /\ UNCHANGED <<usageProvider, pricing, totalInputTokens, totalOutputTokens,
                 totalTokens, sessionCost, usageSaves, usageTurns>>
  /\ UNCHANGED usageRest

\* What handleCommand does with a result that has shouldClearScreen
\* (README.md 240-244).
ClearScreen ==
  /\ totalTokens' = 0
  /\ sessionCost' = Undefined

\* clearHistory() of the session: the usage totals are zeroed with the messages.
ClearUsage ==
  /\ totalInputTokens' = 0
  /\ totalOutputTokens' = 0

\* /clear: handleClear (commands.ts 139-146), behind the isProcessing test of
\* handleSubmit (README.md 152).
UsageCommandClear ==
  /\ ~usageProcessing
  /\ ClearUsage
  /\ ClearScreen
  /\ UNCHANGED <<usageProvider, pricing, usageProcessing, usageSaves,
                 usageTurns, response>>
  /\ UNCHANGED usageRest

\* /provider <id>, /model <id>: the handler sets config.config.activeModel to
\* { id, display_name } (commands.ts 318-322, 405-409) and awaits the save;
\* /setup awaits the setup (commands.ts 186).
UsageCommandStarts(kind, target) ==
  /\ ~usageProcessing
  /\ Len(usageSaves) < MaxPending
  /\ usageSaves' = Append(usageSaves, [kind |-> kind, target |-> target])
  /\ pricing' = IF kind = "setup" THEN pricing ELSE NoPricing
  /\ UNCHANGED <<usageProvider, totalInputTokens, totalOutputTokens, totalTokens,
                 sessionCost, usageProcessing, usageTurns, response>>
  /\ UNCHANGED usageRest

\* The awaited save or setup is done: a switch binds the backend and clears
\* the history (commands.ts 327-343, 414-424), /setup reloads the config
\* (188-197); each result has shouldClearScreen.
UsageCommandResolves(i) ==
  /\ i \in 1..Len(usageSaves)
  /\ usageSaves' = RemoveAt(usageSaves, i)
  /\ IF usageSaves[i].kind = "setup"
       THEN UNCHANGED <<usageProvider, totalInputTokens, totalOutputTokens>>
       ELSE /\ usageProvider' = setProvider(usageSaves[i].target)
            /\ ClearUsage
  /\ ClearScreen
  /\ UNCHANGED <<pricing, usageProcessing, usageTurns, response>>
  /\ UNCHANGED usageRest

\* The awaited save or setup fails (commands.ts 344-349, 198-203).
UsageCommandRejects(i) ==
  /\ i \in 1..Len(usageSaves)
  /\ usageSaves' = RemoveAt(usageSaves, i)
  /\ UNCHANGED <<usageProvider, pricing, totalInputTokens, totalOutputTokens,
                 totalTokens, sessionCost, usageProcessing, usageTurns, response>>
  /\ UNCHANGED usageRest

UsageInit ==
  /\ ui = "ink"
  /\ usageProvider \in Providers
  /\ pricing \in Pricings
  /\ totalInputTokens = 0
  /\ totalOutputTokens = 0
  /\ totalTokens = 0
  /\ sessionCost = Undefined
  /\ usageProcessing = FALSE
  /\ usageSaves = <<>>
  /\ usageTurns = 0
  /\ response = NoResponse
  /\ provider = usageProvider
  /\ activeProvider = provider
  /\ conversationHistory = <<>>
  /\ messageMetadata = EmptyMap
  /\ calls = EmptyMap
  /\ nextId = 0
  /\ outcome = NoOutcome
  /\ cancelledAs = {}
  /\ isProcessing = FALSE
  /\ isLoading = FALSE
  /\ spinnerIntervals = {}
  /\ cursorVisible = TRUE
  /\ promptShown = TRUE
  /\ explicitExit = FALSE
  /\ exited = "no"
  /\ pendingSaves = <<>>
  /\ ev = NoEvent
  /\ messages = <<>>
  /\ WrapIdle
  /\ PaintIdle
  /\ RepaintIdle
  /\ EstimateIdle
  /\ RenderIdle

UsageNext ==
  \/ UsageStartTurn
  \/ \E r \in Responses, u \in UsageReports : UsageStreamEnds(r, u)
  \/ \E e \in SdkErrors : UsageStreamThrows(e)
  \/ UsageCommandClear
  \/ \E k \in {"switch", "setup"}, p \in Providers : UsageCommandStarts(k, p)
  \/ \E i \in 1..MaxPending : UsageCommandResolves(i)
  \/ \E i \in 1..MaxPending : UsageCommandRejects(i)

UsageSpec == UsageInit /\ [][UsageNext]_vars

(***************************************************************************)
(* Properties of the session (checked under SessionSpec unless said).      *)
(***************************************************************************)
\* The step in which a sendMessage call ends with the given status.
Settles(status) == outcome' # outcome /\ outcome'.status = status

\* A message sequence that is (User, Assistant) pairs and nothing else.
IsPairs(h) ==
  /\ Len(h) % 2 = 0
  /\ \A i \in 1..Len(h) :
       h[i].role = (IF i % 2 = 1 THEN "user" ELSE "assistant")

\* Timestamps never decrease along the sequence.
Chronological(h) ==
  \A i \in 1..Len(h) : \A j \in i..Len(h) : h[i].timestamp <= h[j].timestamp

\* C1: rollback invariant.  When a sendMessage call of a session driven one
\* call at a time fails or is cancelled, before or after any number of
\* fragments, getHistory() after the call equals getHistory() before it: the
\* provisional user message and its metadata entry are gone, no partial
\* assistant content is kept, no earlier message is changed.
C1_RollbackInvariant ==
  [][ Settles("error") =>
        /\ getHistory(conversationHistory', messageMetadata') = outcome'.histBefore
        /\ DOMAIN messageMetadata' = 0 .. (Len(conversationHistory') - 1) ]_vars

\* A call failed after two fragments, on a history that held an earlier turn.
C1_Witness ==
  /\ outcome.status = "error"
  /\ outcome.delivered = 2
  /\ Len(outcome.histBefore) = 2
  /\ getHistory(conversationHistory, messageMetadata) = outcome.histBefore

C3_AtMostOneInFlight == Cardinality(DOMAIN calls) <= 1

\* A message line was entered while a turn that could be followed by another
\* one was streaming.
C3_Witness ==
  /\ ev.type = "line" /\ ev.kind = "message" /\ ev.gated
  /\ nextId < MaxTurns
  /\ \E c \in DOMAIN calls : calls[c].delivered > 0

\* C4: input arriving while a turn is in flight is discarded, never queued.
\* The step that reads such a line starts no backend call, executes no
\* command, changes neither the history nor the session, and a call or a
\* command only ever starts in the step that reads a line while idle, so a
\* discarded line is not replayed after the turn ends.
C4_InputDiscarded ==
  [][ /\ (ev'.type = "line" /\ ev'.gated) =>
           UNCHANGED <<provider, conversationHistory, messageMetadata, calls,
                       nextId, outcome, activeProvider, pendingSaves, exited,
                       isProcessing>>
      /\ (nextId' # nextId \/ pendingSaves' # pendingSaves
            \/ activeProvider' # activeProvider) =>
           \/ ev'.type = "line" /\ ~ev'.gated
           \/ Len(pendingSaves') < Len(pendingSaves) ]_vars

\* A command line was entered, and dropped, before the first fragment of a turn.
C4_Witness ==
  /\ ev.type = "line" /\ ev.kind = "command" /\ ev.gated
  /\ isProcessing
  /\ pendingSaves = <<>>
  /\ \E c \in DOMAIN calls : calls[c].delivered = 0

\* C5: every turn whose backend call terminates, with a response, a backend
\* error or an unknown error, returns the coordinator to Idle with input
\* re-enabled (isProcessing false, prompt shown): the failure is caught by the
\* turn handler and never terminates the process or leaves input gated.
C5_TurnReturnsToIdle ==
  [][ (Settles("ok") \/ Settles("error")) =>
        /\ ~isProcessing'
        /\ exited' = "no"
        /\ DOMAIN calls' = {}
        /\ ui = "readline" => promptShown' /\ cursorVisible' ]_vars

\* A turn of the readline front end ended on a thrown value that is no Error.
C5_Witness ==
  /\ ui = "readline"
  /\ outcome.status = "error"
  /\ outcome.cause = "nonerror"
  /\ outcome.message = <<"Error: ", "An unknown error occurred">>
  /\ ~isProcessing /\ promptShown /\ exited = "no"

\* Whether the loading indicator of turn c is running.
IndicatorActive(c) ==
  IF ui = "readline" THEN c \in spinnerIntervals ELSE isLoading

\* C10: in every turn the loading indicator is active from the start of the
\* turn until the first fragment, and the first fragment clears it exactly
\* once: no later fragment clears it again and nothing restarts it while the
\* turn runs.
C10_IndicatorClearedOnce ==
  \A c \in DOMAIN calls :
    /\ IndicatorActive(c) <=> calls[c].delivered = 0
    /\ calls[c].firstChunk <=> calls[c].delivered = 0
    /\ calls[c].cleared = (IF calls[c].delivered = 0 THEN 0 ELSE 1)

\* The second fragment of a turn has been delivered.
C10_Witness ==
  \E c \in DOMAIN calls :
    /\ calls[c].delivered = 2
    /\ calls[c].cleared = 1
    /\ ~IndicatorActive(c)

(***************************************************************************)
(* Cancellation.                                                           *)
(***************************************************************************)
\* C6: an operator interrupt issued while a turn is awaiting its first chunk
\* or streaming invokes the backend's cancellation token, and the process
\* goes on to return to Idle (checked under Spec).
C6_InterruptCancels ==
  (ev.type = "sigint" /\ ev.gated) =>
    /\ exited = "no"
    /\ \A c \in DOMAIN calls : calls[c].signal = "aborted"

\* C7: for every provider, once the signal of a call is aborted no further
\* fragment is delivered to onStreamChunk and the call does not return a
\* response (checked under SessionSpec).
C7_AbortStopsProvider ==
  [][ \A c \in DOMAIN calls :
        calls[c].signal = "aborted" =>
          /\ c \in DOMAIN calls' => calls'[c].delivered = calls[c].delivered
          /\ ~(outcome'.id = c /\ outcome'.status = "ok") ]_vars

\* C8: a cancelled call is reported in a way that tells it from a transport
\* or API failure: no failure of another cause is rejected with what a
\* cancelled call was rejected with (checked under SessionSpec).
C8_CancelDistinguishable ==
  (outcome.status = "error" /\ outcome.cause # "cancelled") =>
    outcome.message \notin cancelledAs

(***************************************************************************)
(* The spinner at the end of a turn (checked under Spec).                  *)
(***************************************************************************)
\* C11: no dangling spinner.  Whenever a turn has ended and the coordinator
\* is Idle again, the spinner timer started for the turn has been stopped (and
\* the Ink spinner is hidden), whatever the outcome of the backend call, also
\* for a call that fails before any fragment or ends without delivering one.
C11_NoDanglingSpinner ==
  (DOMAIN calls = {} /\ ~isProcessing) =>
    (spinnerIntervals = {} /\ ~isLoading)


(***************************************************************************)
(* Properties of the Line Reflow Engine (checked under WrapSpec).          *)
(***************************************************************************)
IsSolid(char) == char # " " /\ char # "\n"

\* The characters of a text that are neither spaces nor newlines, in order.
Solid(text) == SelectSeq(text, IsSolid)

\* What of the text has been given to wrapChunk so far.
Fed == SubSeq(wrapped.text, 1, fed)

\* C12: when the message has ended (the stream is over, or the input has been
\* echoed) and the coordinator is done with the wrapper, every character of
\* the text fed to wrapChunk has been written to the terminal and no partial
\* word or line is left in the wrapper's buffers.
C12_FlushedAtStreamEnd ==
  (ui = "readline" /\ wlast.op = "end") =>
    /\ tw.wordBuffer = <<>>
    /\ tw.lineBuffer = <<>>
    /\ Solid(written) = Solid(Fed)


\* The lines of what was written: the text between the newlines.
LinesOf(text) ==
  LET isNl(i) == text[i] = "\n"
      lineNo(i) == Cardinality({j \in 1..(i - 1) : isNl(j)}) + 1
      count == Cardinality({j \in 1..Len(text) : isNl(j)}) + 1
      at(k) == {i \in 1..Len(text) : ~isNl(i) /\ lineNo(i) = k}
      first(k) == CHOOSE i \in at(k) : \A j \in at(k) : i <= j
  IN  [k \in 1..count |-> [m \in 1..Cardinality(at(k)) |-> text[first(k) + m - 1]]]

\* A line without the spaces at its end.
TrimRight(line) ==
  LET solid == {i \in 1..Len(line) : line[i] # " "}
  IN  IF solid = {} THEN <<>>
      ELSE SubSeq(line, 1, CHOOSE i \in solid : \A j \in solid : j <= i)

\* The lines as they look on the terminal.
FinalLines(text) == [k \in DOMAIN LinesOf(text) |-> TrimRight(LinesOf(text)[k])]

\* The whole text fed as one fragment to a new wrapper, then flush().
WholeText ==
  LET chunked == wrapChunk(NewTextWrapper(wrapped.terminalWidth, wrapped.initialPosition), wrapped.text)
  IN  chunked.result \o flush(chunked.tw).result

\* The text has been fed in fragments, then flush() was called, and no other
\* method was.
FedThenFlushed ==
  /\ ui = "client"
  /\ fed = Len(wrapped.text)
  /\ used = <<"flush">>
  /\ wlast.op = "flush"

\* C13: reflow idempotence under refragmentation.  Feeding the fragments of a
\* text in order and then flush() gives the same lines as feeding the text as
\* one fragment and then flush().
C13_Refragmentation ==
  FedThenFlushed => FinalLines(written) = FinalLines(WholeText)


\* Only wrapChunk and flush have been called on the wrapper.
OnlyFedAndFlushed == \A i \in 1..Len(used) : used[i] = "flush"

\* A line that holds one unbreakable token longer than maxWidth and nothing else.
IsLongToken(line) ==
  /\ Len(TrimRight(line)) > tw.maxWidth
  /\ \A i \in 1..Len(TrimRight(line)) : line[i] # " "

\* The length of the k-th line on the terminal: the first one starts at the
\* initial column.
LineLength(k) ==
  Len(LinesOf(written)[k]) + (IF k = 1 THEN wrapped.initialPosition ELSE 0)

\* C14: width bound.  Every line emitted by wrapChunk and flush, split at
\* newlines and counting the initial column, is no longer than maxWidth,
\* except a line holding a single unbreakable token longer than maxWidth.
C14_WidthBound ==
  OnlyFedAndFlushed =>
    \A k \in DOMAIN LinesOf(written) :
      LineLength(k) <= tw.maxWidth \/ IsLongToken(LinesOf(written)[k])


\* How many characters of text[1..i] belong to words.
SolidUpTo(text, i) == Cardinality({j \in 1..i : IsSolid(text[j])})

\* Where the k-th word character of the text is.
SolidAt(text, k) ==
  CHOOSE i \in 1..Len(text) : IsSolid(text[i]) /\ SolidUpTo(text, i) = k

\* The word characters written so far are the first ones fed, in order.
InOrder ==
  /\ Len(Solid(written)) <= Len(Solid(Fed))
  /\ Solid(written) = SubSeq(Solid(Fed), 1, Len(Solid(written)))

\* C15: lines are broken at word boundaries only.  Where a line break has
\* been written between two word characters, these two were not adjacent in
\* the input: a space or a newline stood between them, so no token, however
\* long and however cut into fragments, is split.
C15_BreaksAtWordBoundaries ==
  (OnlyFedAndFlushed /\ InOrder) =>
    \A i \in 1..Len(written) :
      LET k == SolidUpTo(written, i)
      IN  (written[i] = "\n" /\ k >= 1 /\ k < Len(Solid(written))) =>
            ~IsSolid(Fed[SolidAt(Fed, k) + 1])


\* The scenario: a wrapper built for terminal width 20 at column 0, fed
\* "The quick br", "own fox jumps ", "over the lazy dog." and then flushed.
FoxScenario ==
  /\ wrapped.text = FoxText
  /\ wrapped.terminalWidth = 20
  /\ wrapped.initialPosition = 0
  /\ nfrag = 3
  /\ FedThenFlushed

\* "The quick brown fox", "jumps over the lazy", "dog."
FoxLinesAt20 ==
  <<SubSeq(FoxText, 1, 19), SubSeq(FoxText, 21, 39), SubSeq(FoxText, 41, 44)>>

\* "The quick brown fox jumps over the lazy", "dog."
FoxLinesAt40 == <<SubSeq(FoxText, 1, 39), SubSeq(FoxText, 41, 44)>>

\* C16, as stated: the scenario yields exactly the lines "The quick brown
\* fox", "jumps over the lazy", "dog.".
C16_FoxAtWidth20 == FoxScenario => FinalLines(written) = FoxLinesAt20

\* C16, amended: a wrapper built for width 20 wraps at maxWidth 40, and the
\* scenario yields exactly the lines "The quick brown fox jumps over the
\* lazy", "dog.".
C16_FoxAtMaxWidth40 ==
  FoxScenario => (tw.maxWidth = 40 /\ FinalLines(written) = FoxLinesAt40)

C16_Witness == FoxScenario /\ Len(LinesOf(written)) = 2


\* C17: a zero-length fragment is a no-op.  In every state reachable through
\* wrapChunk, flush, reset and updateWidth calls, wrapChunk('') returns the
\* empty string and leaves linePosition, wordBuffer and lineBuffer unchanged.
C17_EmptyFragmentNoOp ==
  [][(wlast'.op = "wrapChunk" /\ wlast'.arg = 0) =>
       (tw' = tw /\ written' = written)]_vars


\* C18: updateWidth between two fragments changes only maxWidth: it emits
\* nothing and leaves the buffered word, the buffered line and the column as
\* they are, and what was written stays as written; every wrapChunk call
\* decides with the width that was set last.
C18_UpdateWidthFrame ==
  [][/\ wlast'.op = "updateWidth" =>
          /\ tw'.wordBuffer = tw.wordBuffer
          /\ tw'.lineBuffer = tw.lineBuffer
          /\ tw'.linePosition = tw.linePosition
          /\ tw'.maxWidth = MaxWidthOf(wlast'.arg)
          /\ written' = written
     /\ wlast'.op = "wrapChunk" =>
          LET governed == wrapChunk([tw EXCEPT !.maxWidth = MaxWidthOf(terminalWidth)],
                                    SubSeq(wrapped.text, fed + 1, fed'))
          IN  /\ tw' = governed.tw
              /\ written' = written \o governed.result]_vars

C18_Witness ==
  /\ wlast.op = "updateWidth"
  /\ tw.maxWidth # MaxWidthOf(wrapped.terminalWidth)
  /\ tw.wordBuffer # <<>>
  /\ written # <<>>
  /\ fed < Len(wrapped.text)


\* C19: after construction and after each updateWidth(w) the wrapper's
\* maxWidth is max(40, w - 6), w being the width given last: never below
\* 40, and 74 for a terminal 80 wide.
C19_MaxWidth ==
  /\ tw.maxWidth = (IF terminalWidth - 6 >= 40 THEN terminalWidth - 6 ELSE 40)
  /\ tw.maxWidth >= 40
  /\ terminalWidth = 80 => tw.maxWidth = 74

C19_Witness ==
  /\ wlast.op = "updateWidth"
  /\ wlast.arg = 80
  /\ wrapped.terminalWidth = 20
  /\ tw.maxWidth = 74


(***************************************************************************)
(* Hot swap of the backend (checked under SessionSpec).                    *)
(***************************************************************************)
\* C20: setProvider replaces only the bound backend.  In every state, idle
\* or with a call in flight, the step leaves the message history, its
\* metadata and the calls as they were and binds the backend given; nothing
\* else rebinds it, and every sendMessage that starts uses the backend bound
\* at that moment, the one given to the last setProvider.
C20_SetProviderFrame ==
  [][/\ ev'.type = "setProvider" =>
          /\ provider' = ev'.kind
          /\ UNCHANGED <<conversationHistory, messageMetadata, calls, nextId, outcome>>
     /\ provider' # provider => ev'.type = "setProvider"
     /\ \A c \in DOMAIN calls' \ DOMAIN calls : calls'[c].prov = provider]_vars

\* setProvider has just rebound a session that holds a finished turn.
C20_Witness ==
  /\ ev.type = "setProvider"
  /\ provider = ev.kind
  /\ provider # activeProvider
  /\ Len(conversationHistory) >= 2
  /\ DOMAIN messageMetadata # {}


(***************************************************************************)
(* Clearing the session (checked under Spec).                              *)
(***************************************************************************)
\* A step in which clearHistory() is called: /clear, or a /provider command
\* whose save has resolved (setProvider, then clearHistory).
ClearsHistory ==
  \/ \E l \in Lines : CommandClear(l)
  \/ \E i \in 1..Len(pendingSaves) : SaveResolves(i)

\* What the observers of the session read.
SessionEmpty ==
  /\ getHistory(conversationHistory, messageMetadata) = <<>>
  /\ getMessageCount = 0
  /\ messageMetadata = EmptyMap
  /\ getTokenEstimate(conversationHistory) = 0

\* C21: clearHistory is atomic and total.  After clearHistory() in any state,
\* idle or with a turn in flight, also after a setProvider, getHistory() is
\* empty, getMessageCount() is 0, the metadata is empty and the token total
\* is zero; and in no state are the messages cleared while the metadata or
\* the total is not.
C21_ClearHistoryTotal ==
  [][/\ ClearsHistory => SessionEmpty'
     /\ (conversationHistory' = <<>>) => SessionEmpty']_vars

\* The session has been cleared after a turn that succeeded.
C21_Witness ==
  /\ outcome.status = "ok"
  /\ DOMAIN calls = {}
  /\ SessionEmpty


(***************************************************************************)
(* Properties of the usage accounting (checked under UsageSpec).           *)
(***************************************************************************)
\* A step in which the session's clearHistory() is called.
UsageClears ==
  \/ UsageCommandClear
  \/ \E i \in 1..Len(usageSaves) :
       usageSaves[i].kind = "switch" /\ UsageCommandResolves(i)

\* The step in which the turn in flight ends with the given status.
TurnEnds(status) == response.status = "pending" /\ response'.status = status

C23_MissingUsageTolerated ==
  [][\A r \in Responses :
       UsageStreamEnds(r, NoUsage) =>
         /\ response'.status = "ok"
         /\ response'.response = r
         /\ response'.inputTokens = 0
         /\ response'.outputTokens = 0
         /\ response'.totalTokens = 0]_vars


(***************************************************************************)
(* Switching the backend through the command layer (checked under Spec).   *)
(***************************************************************************)
\* C24: switching through the command layer always clears the conversation.
\* Whenever a /provider command reports success the new backend is bound and
\* the history is empty, and no message produced under another backend than
\* the bound one enters the history, from where the next sendMessage would
\* send it to the new backend.
C24_SwitchClearsConversation ==
  [][/\ \A i \in 1..Len(pendingSaves) :
          SaveResolves(i) =>
            (provider' = pendingSaves[i] /\ conversationHistory' = <<>>)
     /\ Settles("ok") => calls[outcome'.id].prov = provider']_vars


(***************************************************************************)
(* The painting of a turn by index.ts (lines 160-255).  A write is what    *)
(* one process.stdout.write or console.log hands to the terminal: the      *)
(* sequence of its characters, an escape sequence or an emoji being one    *)
(* element.                                                                *)
(***************************************************************************)
RESET == "\\x1b[0m"
Cyan == "\\x1b[36m"
Green == "\\x1b[32m"
Red == "\\x1b[31m"
HideCursor == "\\x1b[?25l"
ShowCursor == "\\x1b[?25h"

\* The SGR sequences (ESC [ ... m) set the style of what is written after
\* them; \x1b[0m sets it back to the default.
SgrCodes == {RESET, Cyan, Green, Red}

\* Whether a style attribute is set once the terminal has taken a write.
StyleAfter(open, write) ==
  LET sgr == {j \in 1..Len(write) : write[j] \in SgrCodes}
  IN  IF sgr = {} THEN open
      ELSE write[CHOOSE j \in sgr : \A k \in sgr : k <= j] # RESET

\* The same after a sequence of writes.
StyleAfterWrites(open, writes) ==
  LET styled == {i \in 1..Len(writes) :
                   \E j \in 1..Len(writes[i]) : writes[i][j] \in SgrCodes}
  IN  IF styled = {} THEN open
      ELSE StyleAfter(open, writes[CHOOSE i \in styled : \A k \in styled : k <= i])

\* The themes: none, or cyan for the user and green for the backend
\* (Message.tsx 54-55 names the values).
Themes == {NoTheme, [defined |-> TRUE, user |-> <<Cyan>>, ai |-> <<Green>>]}

\* UIRenderer.getColorForRole, text-wrapper.ts 200-210; index.ts reads it
\* through ui.getUserColor() and ui.getAIColor().
getColorForRole(th, role) ==
  IF ~th.defined THEN <<>> ELSE IF role = "user" THEN th.user ELSE th.ai

ColoredNoReset(color, text) == color \o text

\* `${color}${text}${reset}`, index.ts 178, 180, 186, 226.
Colored(color, text) == color \o text \o <<RESET>>

\* console.log(text)
consoleLog(text) == text \o <<"\n">>

ColumnsAlways80(cols) == 80

\* process.stdout.columns || 80, index.ts 173 and 206.
ColumnsOr80(cols) == IF cols = 0 THEN 80 ELSE cols

\* UIRenderer.renderError, text-wrapper.ts 242-244.
renderError(message) == <<"(cross)", " ">> \o message

\* UIRenderer.renderMessageBubble, text-wrapper.ts 176-195; tokenCount is
\* Undefined when the message has none.
renderMessageBubble(th, message) ==
  LET role == IF message.role = "user" THEN <<"Y", "o", "u">>
              ELSE <<"C", "l", "a", "u", "d", "e">>
      color == getColorForRole(th, message.role)
      head == Colored(color, role \o <<":">>)
      body == Colored(color, message.content)
      tail == Colored(color, <<"... (", "tokenCount", " tokens)">>)
  IN  IF message.isStreaming /\ message.tokenCount # Undefined
      THEN head \o <<"\n">> \o body \o <<"\n">> \o tail
      ELSE head \o <<"\n">> \o body

\* The prompt of the readline interface, index.ts 98 and 153.
PromptText(th) == Colored(getColorForRole(th, "user"), <<"(speech)", " ">>)

\* index.ts 167-182: the input of the turn is echoed.
EchoWrites(userColor, wrappedUserInput) ==
  LET userLines == LinesOf(wrappedUserInput)
  IN  <<consoleLog(<<>>), consoleLog(Colored(userColor, <<"(speech)", " ", "You:">>))>>
        \o [k \in 1..Len(userLines) |-> consoleLog(Colored(userColor, userLines[k]))]
        \o <<consoleLog(<<>>)>>

\* index.ts 222-227: what wrapChunk returned is written line by line.
ChunkWrites(color, wrappedChunk) ==
  LET lines == LinesOf(wrappedChunk)
  IN  [j \in 1..(2 * Len(lines) - 1) |->
         IF j % 2 = 1 THEN Colored(color, lines[(j + 1) \div 2]) ELSE <<"\n">>]

\* The widths of the terminal: unknown (columns is undefined), one column
\* past the floor of the wrap width, the default, a wide one.
TermWidths == {0, 47, 80, 120}

PaintInputs == {<<"h", "i">>, <<"h", "i", " ", "y", "o", "u">>}

\* What a fragment may be: nothing, the end of a word, a line break inside,
\* text that carries a colour sequence of its own.
PaintFragments == {<<>>, <<"a", "b", " ">>, <<"c", "\n", "d">>, <<Red, "e">>}

PaintErrors == ErrorTexts \cup {<<"An unknown error occurred">>}

Bubbles ==
  [role : {"user", "assistant"}, content : {<<"a", "\n", "b">>},
   tokenCount : {Undefined, 2}, isStreaming : BOOLEAN]

\* The handler has written writes.
Writes(writes) ==
  /\ stdout' = writes
  /\ styleOpen' = StyleAfterWrites(styleOpen, writes)

\* index.ts 160-206: a line that is a message begins a turn.
PaintStartTurn(input) ==
  /\ ~painting
  /\ paintTurns < MaxTurns
  /\ LET userColor == getColorForRole(theme, "user")
         color == getColorForRole(theme, "assistant")
         out == wrapChunk(NewTextWrapper(ColumnsOr80(columns), 0), input)
     IN  /\ userWrapper' = out.tw
         /\ Writes(EchoWrites(userColor, out.result)
                     \o <<Colored(color, <<"(robot)">>) \o <<" ", " ">>,
                          <<HideCursor>>>>)
  /\ textWrapper' = NewTextWrapper(ColumnsOr80(columns), 5)
  /\ turnWidths' = Append(turnWidths, textWrapper'.maxWidth)
  /\ painting' = TRUE
  /\ isFirstChunk' = TRUE
  /\ spinners' = spinners \cup {paintTurns + 1}
  /\ paintTurns' = paintTurns + 1
  /\ paintChunks' = 0
  /\ UNCHANGED <<columns, theme>>
  /\ UNCHANGED paintRest

\* index.ts 196-199: a tick of a spinner that was not cleared.
SpinnerTick ==
  /\ spinners # {}
  /\ Writes(<<<<"\\b", "(spinner)">>>>)
  /\ UNCHANGED <<columns, theme, userWrapper, textWrapper, painting,
                 isFirstChunk, spinners, paintTurns, paintChunks, turnWidths>>
  /\ UNCHANGED paintRest

\* index.ts 209-228: the stream callback.
PaintOnChunk(chunk) ==
  /\ painting
  /\ paintChunks < MaxChunks
  /\ LET out == wrapChunk(textWrapper, chunk)
     IN  /\ textWrapper' = out.tw
         /\ Writes((IF isFirstChunk THEN <<<<"\\b", " ">>>> ELSE <<>>)
                     \o ChunkWrites(getColorForRole(theme, "assistant"), out.result))
  /\ isFirstChunk' = FALSE
  /\ spinners' = IF isFirstChunk THEN spinners \ {paintTurns} ELSE spinners
  /\ paintChunks' = paintChunks + 1
  /\ UNCHANGED <<columns, theme, userWrapper, painting, paintTurns, turnWidths>>
  /\ UNCHANGED paintRest

\* index.ts 230-234: sendMessage resolved.
PaintDone ==
  /\ painting
  /\ Writes(<<consoleLog(<<"\n", "\n">>), <<ShowCursor>>, PromptText(theme)>>)
  /\ painting' = FALSE
  /\ UNCHANGED <<columns, theme, userWrapper, textWrapper, isFirstChunk,
                 spinners, paintTurns, paintChunks, turnWidths>>
  /\ UNCHANGED paintRest

\* index.ts 236-255: sendMessage rejected.
PaintError(message) ==
  /\ painting
  /\ Writes(<<<<"\\b", " ", "\\b">>, <<ShowCursor>>, consoleLog(<<>>),
              consoleLog(renderError(message)), consoleLog(<<>>),
              PromptText(theme)>>)
  /\ painting' = FALSE
  /\ spinners' = spinners \ {paintTurns}
  /\ UNCHANGED <<columns, theme, userWrapper, textWrapper, isFirstChunk,
                 paintTurns, paintChunks, turnWidths>>
  /\ UNCHANGED paintRest

\* A caller prints a message with console.log(ui.renderMessageBubble(...)).
PaintBubble(message) ==
  /\ ~painting
  /\ Writes(<<consoleLog(renderMessageBubble(theme, message))>>)
  /\ UNCHANGED <<columns, theme, userWrapper, textWrapper, painting,
                 isFirstChunk, spinners, paintTurns, paintChunks, turnWidths>>
  /\ UNCHANGED paintRest

\* The terminal is resized: process.stdout.columns reads another value.
TerminalResized(width) ==
  /\ width # columns
  /\ columns' = width
  /\ UNCHANGED <<theme, userWrapper, textWrapper, styleOpen, stdout, painting,
                 isFirstChunk, spinners, paintTurns, paintChunks, turnWidths>>
  /\ UNCHANGED paintRest

\* The session and the front end at rest.
ProgIdle ==
  /\ provider = "openai"
  /\ activeProvider = provider
  /\ conversationHistory = <<>>
  /\ messageMetadata = EmptyMap
  /\ calls = EmptyMap
  /\ nextId = 0
  /\ outcome = NoOutcome
  /\ cancelledAs = {}
  /\ isProcessing = FALSE
  /\ isLoading = FALSE
  /\ spinnerIntervals = {}
  /\ cursorVisible = TRUE
  /\ promptShown = TRUE
  /\ explicitExit = FALSE
  /\ exited = "no"
  /\ pendingSaves = <<>>
  /\ ev = NoEvent
  /\ messages = <<>>

PaintInit ==
  /\ ui = "readline"
  /\ columns \in TermWidths
  /\ theme \in Themes
  /\ userWrapper = NewTextWrapper(80, 0)
  /\ textWrapper = NewTextWrapper(80, 5)
  /\ styleOpen = FALSE
  /\ stdout = <<>>
  /\ painting = FALSE
  /\ isFirstChunk = TRUE
  /\ spinners = {}
  /\ paintTurns = 0
  /\ paintChunks = 0
  /\ turnWidths = <<>>
  /\ ProgIdle
  /\ WrapIdle
  /\ UsageIdle
  /\ RepaintIdle
  /\ EstimateIdle
  /\ RenderIdle

PaintNext ==
  \/ \E input \in PaintInputs : PaintStartTurn(input)
  \/ SpinnerTick
  \/ \E chunk \in PaintFragments : PaintOnChunk(chunk)
  \/ PaintDone
  \/ \E message \in PaintErrors : PaintError(message)
  \/ \E message \in Bubbles : PaintBubble(message)
  \/ \E width \in TermWidths : TerminalResized(width)

PaintSpec == PaintInit /\ [][PaintNext]_vars

(***************************************************************************)
(* The repainting front end: main() of src/unnamed/part_000, which paints  *)
(* the response as a bubble and paints it again at every fragment, over    *)
(* the boxed UIRenderer it is written for (text-wrapper.ts 386-606, the    *)
(* one with renderInfo).  A string is the sequence of its characters; a    *)
(* rendered block is kept as the sequence of its lines: no line holds a    *)
(* newline, so join('\n') followed by split('\n') gives the lines back.    *)
(***************************************************************************)
Digit == <<"0", "1", "2", "3", "4", "5", "6", "7", "8", "9">>

\* Number.prototype.toString, for 0..999.
toString(n) ==
  IF n < 10 THEN <<Digit[n + 1]>>
  ELSE IF n < 100 THEN <<Digit[(n \div 10) + 1], Digit[(n % 10) + 1]>>
  ELSE <<Digit[(n \div 100) + 1], Digit[((n \div 10) % 10) + 1], Digit[(n % 10) + 1]>>

\* Math.max, Math.min
Max(a, b) == IF a >= b THEN a ELSE b
Min(a, b) == IF a <= b THEN a ELSE b

\* String.prototype.split(sep) for a separator of one character.
Split(text, sep) ==
  LET isSep(i) == text[i] = sep
      partNo(i) == Cardinality({j \in 1..(i - 1) : isSep(j)}) + 1
      count == Cardinality({j \in 1..Len(text) : isSep(j)}) + 1
      at(k) == {i \in 1..Len(text) : ~isSep(i) /\ partNo(i) = k}
      first(k) == CHOOSE i \in at(k) : \A j \in at(k) : i <= j
  IN  [k \in 1..count |-> [m \in 1..Cardinality(at(k)) |-> text[first(k) + m - 1]]]

\* formatTime, text-wrapper.ts 498-505.
formatTime(date) ==
  LET ampm == IF date.hours >= 12 THEN <<"P", "M">> ELSE <<"A", "M">>
      displayHours == IF date.hours % 12 = 0 THEN 12 ELSE date.hours % 12
      displayMinutes == IF date.minutes < 10 THEN <<"0">> \o toString(date.minutes)
                        ELSE toString(date.minutes)
  IN  toString(displayHours) \o <<":">> \o displayMinutes \o <<" ">> \o ampm

\* getDisplayLength, text-wrapper.ts 558-562.
getDisplayLength(text) == Len(text)

\* wrapText, 534-541: a word longer than maxWidth (maxWidth > 0) is cut into
\* pieces of maxWidth characters; what is left of it becomes the current line.
LongWordPieces(word, maxWidth) ==
  [k \in 1..((Len(word) - 1) \div maxWidth) |->
     SubSeq(word, (k - 1) * maxWidth + 1, k * maxWidth)]

LongWordRest(word, maxWidth) ==
  SubSeq(word, ((Len(word) - 1) \div maxWidth) * maxWidth + 1, Len(word))

\* wrapText, 523-549: the loop over the words of a paragraph from the i-th on,
\* and the push of the last line.
RECURSIVE WrapWords(_, _, _, _, _)
WrapWords(words, i, currentLine, lines, maxWidth) ==
  IF i > Len(words)
    THEN IF currentLine # <<>> THEN Append(lines, currentLine) ELSE lines
  ELSE LET word == words[i]
           testLine == IF currentLine # <<>> THEN currentLine \o <<" ">> \o word
                       ELSE word
           pushed == IF currentLine # <<>> THEN Append(lines, currentLine) ELSE lines
       IN  IF getDisplayLength(testLine) <= maxWidth
             THEN WrapWords(words, i + 1, testLine, lines, maxWidth)
           ELSE IF getDisplayLength(word) > maxWidth
             THEN WrapWords(words, i + 1, LongWordRest(word, maxWidth),
                            pushed \o LongWordPieces(word, maxWidth), maxWidth)
           ELSE WrapWords(words, i + 1, word, pushed, maxWidth)

\* wrapText, 514-550: the loop over the paragraphs from the k-th on.
RECURSIVE WrapParagraphs(_, _, _, _)
WrapParagraphs(paragraphs, k, lines, maxWidth) ==
  IF k > Len(paragraphs) THEN lines
  ELSE IF Trim(paragraphs[k]) = <<>>
    THEN WrapParagraphs(paragraphs, k + 1, Append(lines, <<>>), maxWidth)
  ELSE WrapParagraphs(paragraphs, k + 1,
                      WrapWords(Split(paragraphs[k], " "), 1, <<>>, lines, maxWidth),
                      maxWidth)

\* wrapText, text-wrapper.ts 510-553.
wrapText(text, maxWidth) == WrapParagraphs(Split(text, "\n"), 1, <<>>, maxWidth)

\* renderMessageBubble of the boxed UIRenderer, text-wrapper.ts 426-459: the
\* lines of the bubble.  "+", "-", "|" and "*" stand for the box-drawing
\* characters and the bullet.
BoxMessageBubble(message, width) ==
  LET maxContentWidth == width - 6
      role == IF message.role = "user" THEN <<"Y", "o", "u">>
              ELSE <<"C", "l", "a", "u", "d", "e">>
      time == formatTime(message.timestamp)
      headerDashes == Rep("-", Max(1, maxContentWidth - Len(role) - Len(time) - 5))
      header == <<"-", " ">> \o role \o <<" ">> \o headerDashes \o <<" ">>
                  \o time \o <<" ", "-">>
      wrappedLines == wrapText(message.content, maxContentWidth)
      content == [k \in 1..Len(wrappedLines) |->
                    <<" ", " ", "|", " ">> \o wrappedLines[k]
                      \o Rep(" ", Max(0, maxContentWidth - getDisplayLength(wrappedLines[k])))
                      \o <<" ", "|">>]
      indicator == <<"[", "*", "]", " ", "S", "t", "r", "e", "a", "m", "i", "n", "g",
                     ".", ".", ".", " ", "(">> \o toString(message.tokenCount)
                     \o <<" ", "t", "o", "k", "e", "n", "s", ")">>
      streaming == <<" ", " ", "|", " ">> \o indicator
                     \o Rep(" ", Max(0, maxContentWidth - Len(indicator))) \o <<" ", "|">>
  IN  <<<<" ", " ", "+">> \o header \o <<"+">>>>
        \o content
        \o (IF message.isStreaming /\ message.tokenCount # Undefined
              THEN <<streaming>> ELSE <<>>)
        \o <<<<" ", " ", "+">> \o Rep("-", maxContentWidth + 2) \o <<"+">>>>

\* renderFooter of the boxed UIRenderer, 464-478, showHistory = false: four
\* lines.  promptText has 17 characters, helpText 56.
BoxFooter(width) ==
  <<<<"+">> \o Rep("-", width - 2) \o <<"+">>,
    <<"|", " ">> \o Rep("p", 17) \o Rep(" ", Max(0, width - 4 - 17)) \o <<"|">>,
    <<"|", " ">> \o Rep("h", 56) \o Rep(" ", Max(0, width - 4 - 56)) \o <<" ", "|">>,
    <<"+">> \o Rep("-", width - 2) \o <<"+">>>>

\* renderError of the boxed UIRenderer, 600-605.
BoxError(message, width) ==
  LET errorText == <<"x", " ">> \o message
  IN  <<<<"|", " ">> \o errorText \o Rep(" ", Max(0, width - 4 - Len(errorText)))
          \o <<" ", "|">>>>

(***************************************************************************)
(* The terminal under the repainting front end.  The cursor is on a row of *)
(* the screen, 0 at the top; rows are also counted from the first line     *)
(* ever written, so that a line keeps its number when the screen scrolls.  *)
(***************************************************************************)
CursorAt(t) == t.scrolled + t.row

\* \x1b[nA (cursor up): the cursor stops at the top row of the screen.
CursorUp(t, n) == [t EXCEPT !.row = Max(0, t.row - n)]

\* \x1b[2K\x1b[1B n times (erase the line, cursor down): the cursor stops at
\* the bottom row, the screen does not scroll.
ClearDown(t, n) == [t EXCEPT !.row = Min(t.rows - 1, t.row + n)]

\* n line feeds: at the bottom row the screen scrolls.
LineFeeds(t, n) ==
  LET row == Min(t.rows - 1, t.row + n)
  IN  [t EXCEPT !.row = row, !.scrolled = CursorAt(t) + n - row]

\* The rows a line takes: one, more when it is longer than the screen is wide.
RowsOf(t, line) ==
  IF Len(line) <= t.cols THEN 1 ELSE (Len(line) + t.cols - 1) \div t.cols

BlockRows(t, lines) ==
  Cardinality(UNION {{<<k, r>> : r \in 1..RowsOf(t, lines[k])} : k \in 1..Len(lines)})

\* console.log of a block of lines, written from the first column.
LogBlock(t, lines) == LineFeeds(t, BlockRows(t, lines))

\* part_000 150-161 and 176-183: up lastLineCount lines, clear each of them
\* going down, up again.
MoveToBlock(t, count) ==
  IF count > 0 THEN CursorUp(ClearDown(CursorUp(t, count), count), count) ELSE t

TermRows == {10, 24}
TermCols == {30, 80}
Clocks == {[hours |-> 9, minutes |-> 5], [hours |-> 22, minutes |-> 30]}

\* The fragments: a word, the rest of a sentence, a run of eleven line breaks.
RepaintFragments == {<<>>, <<"h", "i">>, <<" ", "y", "o", "u">>, Rep("\n", 11)}

RepaintErrors == {<<"E", "r", "r", "o", "r", ":", " ", "x">>}

AssistantMessage(content, streaming) ==
  [role |-> "assistant", content |-> content, timestamp |-> assistantStartTime,
   tokenCount |-> estimateTokens(content), isStreaming |-> streaming]

\* part_000 117-131: a line that is a message; the terminal has taken the
\* line feed that ended it.
RepaintStartTurn(input, now) ==
  /\ ~repainting
  /\ repaintTurns < MaxTurns
  /\ LET userMessage == [role |-> "user", content |-> input, timestamp |-> now,
                         tokenCount |-> Undefined, isStreaming |-> FALSE]
         bubble == BoxMessageBubble(userMessage, terminal.cols)
         t == LineFeeds(LogBlock(LineFeeds(terminal, 1), bubble), 1)
     IN  /\ terminal' = t
         /\ paintedFrom' = CursorAt(t)
         /\ paintedTo' = CursorAt(t)
  /\ paintedRows' = 0
  /\ assistantStartTime' = now
  /\ assistantContent' = <<>>
  /\ lastLineCount' = 0
  /\ repainting' = TRUE
  /\ repaintTurns' = repaintTurns + 1
  /\ repaintChunks' = 0
  /\ UNCHANGED repaintRest

\* part_000 134-165: the stream callback.
RepaintOnChunk(chunk) ==
  /\ repainting
  /\ repaintChunks < MaxChunks
  /\ LET content == assistantContent \o chunk
         renderedBubble == BoxMessageBubble(AssistantMessage(content, TRUE),
                                            terminal.cols)
         at == MoveToBlock(terminal, lastLineCount)
     IN  /\ assistantContent' = content
         /\ terminal' = LogBlock(at, renderedBubble)
         /\ lastLineCount' = Len(renderedBubble)
         /\ paintedFrom' = CursorAt(at)
         /\ paintedRows' = BlockRows(at, renderedBubble)
         /\ paintedTo' = CursorAt(LogBlock(at, renderedBubble))
  /\ repaintChunks' = repaintChunks + 1
  /\ UNCHANGED <<assistantStartTime, repainting, repaintTurns>>
  /\ UNCHANGED repaintRest

\* part_000 167-187 and 198-200: sendMessage resolved; the bubble is painted
\* without the streaming line, then the footer and the prompt.
RepaintFinal ==
  /\ repainting
  /\ LET bubble == BoxMessageBubble(AssistantMessage(assistantContent, FALSE),
                                    terminal.cols)
         at == MoveToBlock(terminal, lastLineCount)
         t == LogBlock(at, bubble)
     IN  /\ terminal' = LogBlock(LineFeeds(t, 1), BoxFooter(terminal.cols))
         /\ paintedFrom' = CursorAt(at)
         /\ paintedRows' = BlockRows(at, bubble)
         /\ paintedTo' = CursorAt(t)
  /\ repainting' = FALSE
  /\ UNCHANGED <<lastLineCount, assistantContent, assistantStartTime,
                 repaintTurns, repaintChunks>>
  /\ UNCHANGED repaintRest

\* part_000 189-200: sendMessage rejected; the error, the footer, the prompt.
RepaintFailed(message) ==
  /\ repainting
  /\ terminal' = LogBlock(LineFeeds(LogBlock(terminal,
                                             BoxError(message, terminal.cols)), 1),
                          BoxFooter(terminal.cols))
  /\ repainting' = FALSE
  /\ UNCHANGED <<lastLineCount, assistantContent, assistantStartTime, repaintTurns,
                 repaintChunks, paintedFrom, paintedRows, paintedTo>>
  /\ UNCHANGED repaintRest

\* part_000 51-78: the screen is cleared; header, welcome and footer take
\* ten lines of the width of the terminal.
RepaintInit ==
  /\ ui = "readline"
  /\ \E rows \in TermRows, cols \in TermCols :
       terminal = LineFeeds([rows |-> rows, cols |-> cols, row |-> 0, scrolled |-> 0], 10)
  /\ lastLineCount = 0
  /\ assistantContent = <<>>
  /\ assistantStartTime = [hours |-> 0, minutes |-> 0]
  /\ repainting = FALSE
  /\ repaintTurns = 0
  /\ repaintChunks = 0
  /\ paintedFrom = 0
  /\ paintedRows = 0
  /\ paintedTo = 0
  /\ ProgIdle
  /\ WrapIdle
  /\ UsageIdle
  /\ PaintIdle
  /\ EstimateIdle
  /\ RenderIdle

RepaintNext ==
  \/ \E input \in PaintInputs, now \in Clocks : RepaintStartTurn(input, now)
  \/ \E chunk \in RepaintFragments : RepaintOnChunk(chunk)
  \/ RepaintFinal
  \/ \E message \in RepaintErrors : RepaintFailed(message)

RepaintSpec == RepaintInit /\ [][RepaintNext]_vars


(***************************************************************************)
(* Properties of the painting of a turn.                                   *)
(***************************************************************************)
\* A write sets a colour.
Colorized(write) == \E j \in 1..Len(write) : write[j] \in SgrCodes \ {RESET}

\* C25: every write of a turn that sets a colour ends with the style reset,
\* so no style attribute is set when a handler of the turn has returned:
\* while the next fragment or the end of the stream is awaited, and after an
\* error was rendered.
C25_StyleClosed ==
  /\ ~styleOpen
  /\ \A i \in 1..Len(stdout) :
       Colorized(stdout[i]) =>
         /\ ~StyleAfter(TRUE, stdout[i])
         /\ ~StyleAfterWrites(TRUE, SubSeq(stdout, 1, i))

\* An error was rendered in a turn that had painted coloured fragments.
C25_Witness ==
  /\ theme.defined
  /\ ~painting
  /\ paintChunks = 2
  /\ \E i \in 1..Len(stdout), m \in PaintErrors :
       stdout[i] = consoleLog(renderError(m))
  /\ Colorized(stdout[Len(stdout)])


\* A turn begins with this step.
TurnBegins == ~painting /\ painting'

\* C27: the wrappers of a turn are built for the width the terminal has when
\* the turn begins (80 when the terminal tells none), whatever the width was
\* at the turns before, and the response is wrapped at that width until the
\* turn ends.
C27_WidthPerTurn ==
  [][LET width == IF columns = 0 THEN 80 ELSE columns
     IN  /\ TurnBegins =>
              /\ userWrapper'.maxWidth = MaxWidthOf(width)
              /\ textWrapper'.maxWidth = MaxWidthOf(width)
              /\ turnWidths' = Append(turnWidths, MaxWidthOf(width))
         /\ (painting /\ painting') =>
              /\ textWrapper'.maxWidth = textWrapper.maxWidth
              /\ turnWidths' = turnWidths]_vars

\* The terminal was widened from 80 to 120 columns between two turns; the
\* second turn wraps at 114 and has painted a fragment.
C27_Witness ==
  /\ turnWidths = <<74, 114>>
  /\ columns = 120
  /\ painting
  /\ paintChunks > 0
  /\ textWrapper.maxWidth = 114


(***************************************************************************)
(* Properties of the repainting front end.                                 *)
(***************************************************************************)
\* The bubble of the response is painted by this step.
Repaints == (\E chunk \in RepaintFragments : RepaintOnChunk(chunk)) \/ RepaintFinal

\* C26: every repaint of the response, streaming or final, begins at the
\* first row of the bubble painted before it (at the cursor's row when none
\* was painted yet) and leaves the cursor on the row below the new bubble.
C26_CursorRelativeRepaint ==
  [][Repaints => /\ paintedFrom' = paintedFrom
                 /\ paintedTo' = paintedFrom' + paintedRows']_vars


(***************************************************************************)
(* Token estimation: BaseProvider.estimateTokens (src/unnamed/part_009      *)
(* 55-57) and ChatManager.getTokenEstimate (chat.ts 114-121) called on     *)
(* texts and histories of every length up to the bounds.                   *)
(***************************************************************************)
MaxTextLen == 8
MaxMessages == 2

EstimateTexts == {Rep("x", n) : n \in 0..MaxTextLen}

\* The histories: user and assistant messages in turn.
HistoryOf(contents) ==
  [i \in 1..Len(contents) |->
     [role |-> IF i % 2 = 1 THEN "user" ELSE "assistant", content |-> contents[i]]]

Histories ==
  {HistoryOf(contents) : contents \in UNION {[1..n -> EstimateTexts] : n \in 0..MaxMessages}}

\* The metadata sendMessage has recorded for them (chat.ts 45, 65-68).
MetadataOf(history) ==
  [i \in 0..(Len(history) - 1) |->
     [timestamp |-> Now(1),
      tokenCount |-> IF history[i + 1].role = "user" THEN Undefined
                     ELSE estimateTokens(history[i + 1].content)]]

\* part_009 55-57
CallEstimateTokens(text) ==
  /\ estimate' = [op |-> "estimateTokens", text |-> text,
                  result |-> estimateTokens(text)]
  /\ UNCHANGED estimateRest

\* chat.ts 114-121
CallGetTokenEstimate ==
  /\ estimate' = [op |-> "getTokenEstimate", text |-> <<>>,
                  result |-> getTokenEstimate(conversationHistory)]
  /\ UNCHANGED estimateRest

EstimateInit ==
  /\ ui = "client"
  /\ estimate = NoEstimate
  /\ conversationHistory \in Histories
  /\ messageMetadata = MetadataOf(conversationHistory)
  /\ provider = "openai"
  /\ activeProvider = provider
  /\ calls = EmptyMap
  /\ nextId = 0
  /\ outcome = NoOutcome
  /\ cancelledAs = {}
  /\ isProcessing = FALSE
  /\ isLoading = FALSE
  /\ spinnerIntervals = {}
  /\ cursorVisible = TRUE
  /\ promptShown = TRUE
  /\ explicitExit = FALSE
  /\ exited = "no"
  /\ pendingSaves = <<>>
  /\ ev = NoEvent
  /\ messages = <<>>
  /\ WrapIdle
  /\ UsageIdle
  /\ PaintIdle
  /\ RepaintIdle
  /\ RenderIdle

EstimateNext ==
  \/ \E text \in EstimateTexts : CallEstimateTokens(text)
  \/ CallGetTokenEstimate

EstimateSpec == EstimateInit /\ [][EstimateNext]_vars

(***************************************************************************)
(* Properties of the token estimation.                                     *)
(***************************************************************************)
\* r is n / 4 rounded up: the least integer that is not below n / 4.
IsQuarterRoundedUp(r, n) == 4 * r >= n /\ 4 * (r - 1) < n

\* The sum over the messages of their length / 4 rounded up, by counting:
\* a text of n characters has n / 4 rounded up positions k with 4(k-1) < n.
SumOfQuarters(history) ==
  Cardinality(UNION {{<<i, k>> : k \in {j \in 1..Len(history[i].content) :
                                        4 * (j - 1) < Len(history[i].content)}} :
                     i \in 1..Len(history)})

\* C28: estimateTokens returns the length of the text divided by 4 and
\* rounded up, 0 for the empty text; getTokenEstimate returns the sum of
\* that over the messages of the history; neither changes the session.
C28_TokenEstimate ==
  [][/\ estimate'.op = "estimateTokens" =>
          /\ IsQuarterRoundedUp(estimate'.result, Len(estimate'.text))
          /\ (estimate'.text = <<>> => estimate'.result = 0)
     /\ estimate'.op = "getTokenEstimate" =>
          estimate'.result = SumOfQuarters(conversationHistory)
     /\ UNCHANGED <<provider, conversationHistory, messageMetadata>>]_vars

\* The estimate of a history of a 5-character and an 8-character message.
C28_Witness ==
  /\ estimate.op = "getTokenEstimate"
  /\ Len(conversationHistory) = 2
  /\ Len(conversationHistory[1].content) = 5
  /\ Len(conversationHistory[2].content) = 8
  /\ estimate.result = 4


(***************************************************************************)
(* Properties of the session, continued.                                   *)
(***************************************************************************)
\* C29: whatever sendMessage calls, ended well or not, and clearHistory
\* calls a client has made one after the other, messageMetadata has an entry
\* for each index of conversationHistory and for no other number.
C29_MetadataKeys ==
  DOMAIN messageMetadata = 0..(Len(conversationHistory) - 1)

\* Two calls were made and the second ended well; the history holds one
\* turn, so the first call failed or the history was cleared after it.
C29_Witness ==
  /\ nextId = 2
  /\ DOMAIN calls = {}
  /\ outcome.status = "ok"
  /\ Len(conversationHistory) = 2
  /\ DOMAIN messageMetadata = {0, 1}


\* The texts of a sequence, one after the other.
RECURSIVE Concat(_)
Concat(texts) == IF texts = <<>> THEN <<>> ELSE Head(texts) \o Concat(Tail(texts))

\* C30: the caller's callback is handed each fragment when the stream yields
\* it, after those yielded before; when the call ends well the assistant
\* message put on the history is the texts it was handed, concatenated in
\* that order (the empty text when it was handed none).
C30_FragmentsInOrder ==
  [][/\ \A c \in DOMAIN calls, k \in SessionChunks :
          (/\ StreamYields(c, k)
           /\ c \in DOMAIN calls'
           /\ calls'[c].delivered > calls[c].delivered)
            => calls'[c].received = Append(calls[c].received, k.text)
     /\ Settles("ok") =>
          /\ outcome'.received = calls[outcome'.id].received
          /\ Len(outcome'.received) = outcome'.delivered
          /\ conversationHistory' # <<>>
          /\ conversationHistory'[Len(conversationHistory')] =
               [role |-> "assistant", content |-> Concat(outcome'.received)]]_vars

\* A call ended well after two different fragments.
C30_Witness ==
  /\ outcome.status = "ok"
  /\ outcome.received = <<<<"a", "b", "c">>, <<"d", "e">>>>
  /\ conversationHistory # <<>>
  /\ conversationHistory[Len(conversationHistory)].content = <<"a", "b", "c", "d", "e">>


(***************************************************************************)
(* The render methods of UIRenderer, statement by statement where they     *)
(* loop: text-wrapper.ts 403-478 (boxed renderer), 215-230 (themed         *)
(* renderer's footer), 510-553 (wrapText).                                 *)
(*                                                                         *)
(* render.counts lists the counts handed to String.prototype.repeat, in    *)
(* the order the method computes them; repeat throws a RangeError on a     *)
(* negative count, and the method has no try: the call ends "thrown".      *)
(***************************************************************************)
MaxLines == 9

\* String.prototype.slice(start, end): a negative index counts from the end.
Slice(text, start, end) ==
  LET at(i) == IF i < 0 THEN Max(Len(text) + i, 0) ELSE Min(i, Len(text))
  IN  IF at(start) >= at(end) THEN <<>> ELSE SubSeq(text, at(start) + 1, at(end))

\* text.slice(start)
SliceFrom(text, start) == Slice(text, start, Len(text))

\* String.prototype.repeat(count) throws a RangeError.
RepeatThrows(count) == count < 0

\* How a method that computed these counts ends.
Ended(counts) ==
  IF \E i \in 1..Len(counts) : RepeatThrows(counts[i]) THEN "thrown" ELSE "returned"

\* renderHeader, 403-421: the title has 16 characters, the actions 19; the
\* padding, then the two rules of width - 2.
HeaderCounts(width, modelName, providerName) ==
  LET contentWidth == width - 4
      titleAndInfo == 16 + 3 + Len(modelName) + 3 + Len(providerName)
  IN  <<Max(1, contentWidth - titleAndInfo - 19), width - 2, width - 2>>

\* renderFooter of the boxed renderer, 464-478: the prompt has 17
\* characters, the history indicator 13, the help text 56.
FooterCounts(width, showHistory) ==
  LET historyIndicator == IF showHistory THEN 13 ELSE 0
      helpPadding == Max(0, width - 4 - 56)
  IN  <<helpPadding, width - 2, Max(0, width - 4 - 17 - historyIndicator),
        helpPadding, width - 2>>

\* renderFooter of the themed renderer, 215-230: the help text has 23
\* characters.
ThemedFooterCounts(width) ==
  LET lineWidth == Min(width, 60)
      padding == (lineWidth - 23) \div 2
  IN  <<Max(0, padding), lineWidth>>

\* renderMessageBubble, 426-437: the dashes of the header line.
BubbleHeaderCounts(message, width) ==
  LET role == IF message.role = "user" THEN 3 ELSE 6
  IN  <<Max(1, (width - 6) - role - Len(formatTime(message.timestamp)) - 5)>>

\* renderMessageBubble, 444-456: the padding of each wrapped line, of the
\* streaming indicator, and the rule that closes the bubble.
BubbleBodyCounts(message, width, wrappedLines) ==
  LET maxContentWidth == width - 6
      indicator == 18 + Len(toString(message.tokenCount)) + 8
  IN  [k \in 1..Len(wrappedLines) |->
         Max(0, maxContentWidth - getDisplayLength(wrappedLines[k]))]
        \o (IF message.isStreaming /\ message.tokenCount # Undefined
              THEN <<Max(0, maxContentWidth - indicator)>> ELSE <<>>)
        \o <<maxContentWidth + 2>>

RenderWidths == {1, 3, 4, 6, 7, 9, 80}

RenderContents ==
  { <<>>,
    <<"h", "i">>,
    <<"a", " ", " ", "b">>,
    <<"h", "e", "l", "l", "o", " ", "y", "o", "u">>,
    <<"a", "b", "\n", "\n", "c", "d">>,
    <<"a", "b", "c", "d", "e", "f", "g", "h">>,
    <<"a", "b", " ", "c", "d", "e", "f", "g", " ", "h">> }

RenderMessages ==
  {[role |-> r, content |-> c, timestamp |-> [hours |-> 9, minutes |-> 5],
    tokenCount |-> IF s THEN estimateTokens(c) ELSE Undefined, isStreaming |-> s] :
     r \in {"user", "assistant"}, c \in RenderContents, s \in BOOLEAN}

NoMessage ==
  [role |-> "user", content |-> <<>>, timestamp |-> [hours |-> 0, minutes |-> 0],
   tokenCount |-> Undefined, isStreaming |-> FALSE]

RenderFree == render.status # "running"

\* renderHeader, 403-421
CallRenderHeader(width, modelName, providerName) ==
  /\ RenderFree
  /\ LET counts == HeaderCounts(width, modelName, providerName)
     IN  render' = [op |-> "renderHeader", status |-> Ended(counts), width |-> width,
                    counts |-> counts, message |-> NoMessage]
  /\ wt' = NoWrapText
  /\ UNCHANGED renderRest

\* renderFooter, 464-478
CallRenderFooter(width, showHistory) ==
  /\ RenderFree
  /\ LET counts == FooterCounts(width, showHistory)
     IN  render' = [op |-> "renderFooter", status |-> Ended(counts), width |-> width,
                    counts |-> counts, message |-> NoMessage]
  /\ wt' = NoWrapText
  /\ UNCHANGED renderRest

\* renderFooter of the themed renderer, 215-230
CallRenderFooterThemed(width) ==
  /\ RenderFree
  /\ LET counts == ThemedFooterCounts(width)
     IN  render' = [op |-> "renderFooterThemed", status |-> Ended(counts),
                    width |-> width, counts |-> counts, message |-> NoMessage]
  /\ wt' = NoWrapText
  /\ UNCHANGED renderRest

\* renderMessageBubble, 426-438: up to the call of wrapText, and wrapText
\* 510-512.
CallRenderMessageBubble(message, width) ==
  /\ RenderFree
  /\ render' = [op |-> "renderMessageBubble", status |-> "running", width |-> width,
                counts |-> BubbleHeaderCounts(message, width), message |-> message]
  /\ wt' = [pc |-> "paragraph", maxWidth |-> width - 6,
            paragraphs |-> Split(message.content, "\n"), words |-> <<>>,
            currentLine |-> <<>>, remainingWord |-> <<>>, lines |-> <<>>,
            more |-> 0]
  /\ UNCHANGED renderRest

\* wrapText, 514-521 and 552: the next paragraph, or the return.
WrapTextParagraph ==
  /\ wt.pc = "paragraph"
  /\ IF wt.paragraphs = <<>>
       THEN wt' = [wt EXCEPT !.pc = "returned"]
     ELSE LET paragraph == Head(wt.paragraphs)
          IN  IF Trim(paragraph) = <<>>
                THEN wt' = [wt EXCEPT !.paragraphs = Tail(@),
                                      !.lines = Append(@, <<>>)]
              ELSE wt' = [wt EXCEPT !.pc = "word",
                                    !.paragraphs = Tail(@),
                                    !.words = Split(paragraph, " "),
                                    !.currentLine = <<>>]
  /\ UNCHANGED <<render, renderRest>>

\* wrapText, 523-549: the next word of the paragraph, up to the loop that
\* cuts a long word; after the last word the push of the current line.
WrapTextWord ==
  /\ wt.pc = "word"
  /\ IF wt.words = <<>>
       THEN wt' = [wt EXCEPT !.pc = "paragraph",
                             !.lines = IF wt.currentLine # <<>>
                                         THEN Append(@, wt.currentLine) ELSE @]
     ELSE LET word == Head(wt.words)
              testLine == IF wt.currentLine # <<>>
                            THEN wt.currentLine \o <<" ">> \o word ELSE word
              pushed == IF wt.currentLine # <<>> THEN Append(wt.lines, wt.currentLine)
                        ELSE wt.lines
          IN  IF getDisplayLength(testLine) <= wt.maxWidth
                THEN wt' = [wt EXCEPT !.words = Tail(@), !.currentLine = testLine]
              ELSE IF getDisplayLength(word) > wt.maxWidth
                THEN wt' = [wt EXCEPT !.pc = "long", !.words = Tail(@),
                                      !.lines = pushed, !.remainingWord = word]
              ELSE wt' = [wt EXCEPT !.words = Tail(@), !.lines = pushed,
                                    !.currentLine = word]
  /\ UNCHANGED <<render, renderRest>>

\* wrapText, 536-541: one test of the while loop, and its body or its exit.
\* Of the lines pushed the first MaxLines are kept; of those pushed after
\* them wt.more keeps whether their number is odd.
WrapTextLongWord ==
  /\ wt.pc = "long"
  /\ IF getDisplayLength(wt.remainingWord) > wt.maxWidth
       THEN IF Len(wt.lines) < MaxLines
              THEN wt' = [wt EXCEPT
                            !.lines = Append(@, Slice(wt.remainingWord, 0, wt.maxWidth)),
                            !.remainingWord = SliceFrom(@, wt.maxWidth)]
            ELSE wt' = [wt EXCEPT !.more = 1 - @,
                                  !.remainingWord = SliceFrom(@, wt.maxWidth)]
     ELSE wt' = [wt EXCEPT !.pc = "word", !.currentLine = wt.remainingWord]
  /\ UNCHANGED <<render, renderRest>>

\* renderMessageBubble, 440-458: wrapText has returned.
BubbleReturns ==
  /\ render.status = "running"
  /\ wt.pc = "returned"
  /\ LET counts == render.counts \o BubbleBodyCounts(render.message, render.width, wt.lines)
     IN  render' = [render EXCEPT !.status = Ended(counts), !.counts = counts]
  /\ UNCHANGED <<wt, renderRest>>

RenderInit ==
  /\ ui = "client"
  /\ ProgIdle
  /\ WrapIdle
  /\ UsageIdle
  /\ PaintIdle
  /\ RepaintIdle
  /\ EstimateIdle
  /\ RenderIdle

RenderNext ==
  \/ \E width \in RenderWidths, modelName \in {<<"m">>, Rep("m", 20)} :
       CallRenderHeader(width, modelName, <<"a", "n", "t", "h", "r", "o", "p", "i", "c">>)
  \/ \E width \in RenderWidths, showHistory \in BOOLEAN : CallRenderFooter(width, showHistory)
  \/ \E width \in RenderWidths : CallRenderFooterThemed(width)
  \/ \E message \in RenderMessages, width \in RenderWidths :
       CallRenderMessageBubble(message, width)
  \/ WrapTextParagraph
  \/ WrapTextWord
  \/ WrapTextLongWord
  \/ BubbleReturns

RenderSpec == RenderInit /\ [][RenderNext]_vars


\* wrapText runs to its end once called: the caller is inside it.
RenderFairSpec ==
  /\ RenderSpec
  /\ WF_vars(WrapTextParagraph)
  /\ WF_vars(WrapTextWord)
  /\ WF_vars(WrapTextLongWord)
  /\ WF_vars(BubbleReturns)

(***************************************************************************)
(* Properties of the render methods.                                       *)
(***************************************************************************)
\* C31: at every terminal width of 1 or more and for every message,
\* renderHeader, renderMessageBubble and renderFooter do not throw: each
\* count they hand to repeat is 0 or more.
C31_RenderNeverThrows ==
  /\ render.status # "thrown"
  /\ \A i \in 1..Len(render.counts) : render.counts[i] >= 0

\* C38: wrapText, once called, returns, at every terminal width of 1 or more
\* (also when width - 6 is zero or negative); and when width - 6 is
\* positive no line it returns is longer than that.
C38_WrapTextTerminates ==
  /\ [](wt.pc \in {"paragraph", "word", "long"} => <>(wt.pc = "returned"))
  /\ [](wt.pc = "returned" /\ wt.maxWidth > 0 =>
          \A k \in 1..Len(wt.lines) : getDisplayLength(wt.lines[k]) <= wt.maxWidth)


(***************************************************************************)
(* Commands and turns (checked under Spec).                                *)
(***************************************************************************)
\* C32: no command acts on the session in the middle of a turn.  While a
\* sendMessage call stays in flight the bound provider does not change and
\* the history is not cleared, whatever lines the operator enters and
\* whenever a suspended command resumes; so every Assistant message of the
\* history stands right after a User message.
C32_NoCommandMidTurn ==
  [][/\ (DOMAIN calls # {} /\ DOMAIN calls' = DOMAIN calls) =>
          /\ provider' = provider
          /\ Len(conversationHistory') >= Len(conversationHistory)
     /\ \A k \in 1..Len(conversationHistory') :
          conversationHistory'[k].role = "assistant" =>
            (k > 1 /\ conversationHistory'[k - 1].role = "user")]_vars


\* C33: a switch that fails changes nothing.  When /provider <id> returns a
\* failure the bound provider, the history and its metadata are as before,
\* and so is the active provider of the configuration in memory: whenever no
\* switch is under way config.activeProvider names the provider bound to the
\* ChatManager.
C33_FailedSwitchChangesNothing ==
  [][/\ \A i \in 1..Len(pendingSaves) :
          SaveRejects(i) => UNCHANGED <<provider, conversationHistory, messageMetadata>>
     /\ pendingSaves' = <<>> => activeProvider' = provider']_vars


\* C34: the cursor hidden at the start of a turn is shown again on every way
\* out of it: it is visible whenever input is enabled again, and when the
\* process has exited through the interrupt or close handler, also with a
\* turn in flight.
C34_CursorRestored ==
  /\ (exited = "no" /\ ~isProcessing) => cursorVisible
  /\ exited # "no" => cursorVisible


(***************************************************************************)
(* The transcript of ChatUI (checked under Spec, front end "ink").         *)
(***************************************************************************)
\* C35: after every turn, ended well or failed, the user and assistant
\* messages ChatUI shows are, in order, the messages of the session's
\* history; after a failed turn the transcript shows nothing of the turn
\* the session has rolled back.
C35_TranscriptMirrorsSession ==
  [][(ui = "ink" /\ (Settles("ok") \/ Settles("error"))) =>
       messages' = conversationHistory']_vars


(***************************************************************************)
(* The order of the text through a TextWrapper (checked under WrapSpec).   *)
(***************************************************************************)
\* C36: TextWrapper keeps the text in order.  When a text has been fed to
\* wrapChunk, however cut into fragments, and flush() has been called, what
\* was returned holds the characters of the text that are neither spaces
\* nor newlines, each once and in the order of the text.
C36_TextOrderPreserved ==
  FedThenFlushed => Solid(written) = Solid(wrapped.text)


(***************************************************************************)
(* The token estimates of a turn (checked under SessionSpec).              *)
(***************************************************************************)
\* C37: within a turn the token estimate handed to the callback with each
\* fragment never decreases and is the length of the text received so far
\* divided by 4, rounded up; after a turn that ended well the tokenCount
\* stored for the Assistant message is the length of its content divided by
\* 4, rounded up, and 0 when the content is empty.
C37_TokenEstimateCumulative ==
  [][/\ \A c \in DOMAIN calls :
          (c \in DOMAIN calls' /\ calls'[c].delivered > calls[c].delivered) =>
            /\ calls'[c].tokenCount >= calls[c].tokenCount
            /\ IsQuarterRoundedUp(calls'[c].tokenCount,
                                  Len(Concat(calls'[c].received)))
     /\ Settles("ok") =>
          LET n == Len(conversationHistory')
              stored == messageMetadata'[n - 1].tokenCount
          IN  /\ conversationHistory'[n].role = "assistant"
              /\ IsQuarterRoundedUp(stored, Len(conversationHistory'[n].content))
              /\ (conversationHistory'[n].content = <<>> => stored = 0)]_vars

\* A turn ended well after fragments of three and of two characters: the
\* estimates were 1 and 2, and 2 is stored.
C37_Witness ==
  /\ outcome.status = "ok"
  /\ Len(outcome.received) = 2
  /\ Len(outcome.received[1]) = 3
  /\ Len(conversationHistory) = 2
  /\ Len(conversationHistory[2].content) = 5
  /\ messageMetadata[1].tokenCount = 2

====
